---- MODULE Spec2Model ----
(***************************************************************************)
(* A model of smart-spend-ai: the date/week utility, the time-boundary     *)
(* archiver, the budget state with its setup and edit handlers, the alert  *)
(* engine, the transaction add/delete handlers, the expense parser, the    *)
(* adapter to the classifier, the text entry component, the start of a     *)
(* session, the Dashboard's alerts, the notification service, the          *)
(* per-category limits and the analytics engine.                           *)
(*                                                                         *)
(* Dates.  A calendar date is a day number, day 0 being Monday 2024-01-01. *)
(* A Date object is a record [day, hour] of local-time fields.  Amounts    *)
(* are whole currency units, except in the parser, the adapter and the     *)
(* text entry, which count them in hundredths.                             *)
(***************************************************************************)
EXTENDS Integers, Sequences, FiniteSets, TLC

VARIABLES
  \* --- date utility calls (pure functions applied to drawn inputs) ---
  date1, date2,        \* the two Date arguments
  sameWeek,            \* result of isSameWeek(date1, date2), None before the call
  weekId1, weekId2     \* results of getCurrentWeekId(date1 / date2)

dateVars == <<date1, date2, sameWeek, weekId1, weekId2>>

VARIABLES
  \* --- the clock and the per-user transactions collection ---
  clock,               \* the day "new Date()" falls on
  txStore              \* users/{uid}/transactions: id -> Transaction

storeVars == <<clock, txStore>>

VARIABLES
  \* --- the time-boundary archiver and its documents ---
  meta,                \* users/{uid}/settings/meta: None or Some(HistoryMeta)
  historyWeeks,        \* users/{uid}/history_weeks: weekId -> WeeklyStats
  historyMonths,       \* users/{uid}/history_months: monthId -> MonthlyStats
  tsPc,                \* where TimeService.init stands
  tsMeta,              \* metaSnap, the meta document init read
  tsWeekId, tsMonthId, \* currentWeekId / currentMonthId of the running init
  failures,            \* store calls that have failed so far
  thisRun, prevRun,    \* history: the latest init run and the one before it
  rewritten            \* history: snapshot documents written when they already existed

archiveVars == <<meta, historyWeeks, historyMonths, tsPc, tsMeta, tsWeekId, tsMonthId,
                 failures, thisRun, prevRun, rewritten>>

VARIABLES
  \* --- the budget: App state, BudgetSetup form, Dashboard inline edit ---
  budget,              \* AuthenticatedApp budget (BudgetState)
  income,              \* BudgetSetup income, the text of the income field
  allocations,         \* BudgetSetup allocations
  editing,             \* Dashboard editing: None, or Some of Weekly / Monthly / Savings
  editValue,           \* Dashboard editValue, the text of the edit field
  lastOp,              \* history: the handler that ran last
  lastEdit,            \* history: the field and parsed value handleSaveEdit last read
  updateCalled         \* history: whether the last handler called onUpdateBudget

budgetVars == <<budget, income, allocations, editing, editValue, lastOp, lastEdit,
                updateCalled>>

VARIABLES
  \* --- the transactions in memory and the alert engine ---
  transactions,        \* AuthenticatedApp transactions, newest first
  alerts,              \* the result of the last generateAlerts call, or None
  nowMs,               \* Date.now(), in milliseconds
  pending,             \* handlers suspended at their await, in the order of the calls
  overwritten          \* history: ids of documents an add has written over

appVars == <<transactions, alerts, nowMs, pending, overwritten>>

VARIABLES
  \* --- the expense parser (pure functions applied to drawn inputs) ---
  rawText,             \* the text argument
  parsedOne,           \* result of parseExpenseInput(text), None before the call
  parsedMany           \* result of parseMultipleExpenses(text), None before the call

parserVars == <<rawText, parsedOne, parsedMany>>

VARIABLES
  \* --- the classifier adapter (applied to drawn inputs and replies) ---
  aiInput,             \* the input argument
  aiReply,             \* what the service answers
  aiResult             \* result of parseExpenseWithAI(aiInput), None before the call

classifierVars == <<aiInput, aiReply, aiResult>>

VARIABLES
  \* --- the text entry component ---
  inputValue,          \* the state input: the text typed so far
  previewItems,        \* the state preview: None, or Some list of ParsedExpense
  timers,              \* the timers of setTimeout that have not run yet
  debounceTimer,       \* the timer handle the last run of the effect holds, or None
  inFlight,            \* the requests to the classifier that await their answer
  quiet,               \* ticks since the input last changed, up to DebounceTicks
  lastCall,            \* history: the answer handled last, None once the input changes
  written,             \* the transactions handed to storage.addTransaction
  committed            \* history: a commit cleared the input and nothing was typed since

inputVars == <<inputValue, previewItems, timers, debounceTimer, inFlight, quiet,
               lastCall, written, committed>>

VARIABLES
  \* --- the start of a session: AuthenticatedApp's effect on mount ---
  loadingData,         \* the state loadingData
  bootPc,              \* where initData stands
  loadedBudget,        \* initData's loadedBudget, None before loadBudget returns
  budgetDoc            \* users/{uid}/settings/budget: None or Some(BudgetState)

bootVars == <<loadingData, bootPc, loadedBudget, budgetDoc>>

VARIABLES
  \* --- the Dashboard's alert state ---
  view,                \* AuthenticatedApp view
  activeAlerts,        \* Dashboard activeAlerts; the Dashboard is mounted in view dashboard
  dismissedIds,        \* Dashboard dismissedIds
  effectDeps,          \* [budget, transactions, dismissedIds] of the alert effect's last run
  dismissedEver        \* history: the ids dismissed since the session began

dashVars == <<view, activeAlerts, dismissedIds, effectDeps, dismissedEver>>

VARIABLES
  \* --- the notification service ---
  permission,          \* NotificationService.permission
  notified             \* the notifications of the last checkAndSendNotifications, or None

notifyVars == <<permission, notified>>

VARIABLES
  \* --- the analytics engine (a pure function applied to drawn inputs) ---
  analytics            \* result of generateAnalytics(transactions), None before the call

analyticsVars == <<analytics>>

entryVars == <<parserVars, classifierVars, inputVars>>

viewVars == <<dashVars, notifyVars, analyticsVars>>

vars == <<dateVars, storeVars, archiveVars, budgetVars, appVars, entryVars, bootVars,
          viewVars>>

\* What the actions of one part leave alone.
outsideDate == <<storeVars, archiveVars, budgetVars, appVars, entryVars, bootVars,
  viewVars>>
outsideArchive == <<dateVars, budgetVars, appVars, entryVars, bootVars,
  viewVars>>
outsideBudget == <<dateVars, storeVars, archiveVars, appVars, entryVars, bootVars,
  viewVars>>
outsideAlerts == <<dateVars, archiveVars, txStore, nowMs, pending, overwritten, entryVars, bootVars,
  viewVars>>
outsideTx == <<dateVars, archiveVars, budgetVars, clock, alerts, entryVars, bootVars,
  viewVars>>
outsideParser == <<dateVars, storeVars, archiveVars, budgetVars, appVars, classifierVars, inputVars,
  bootVars,
  viewVars>>
outsideClassifier == <<dateVars, storeVars, archiveVars, budgetVars, appVars, parserVars, inputVars,
  bootVars,
  viewVars>>
outsideBoot == <<dateVars, income, allocations, editing, editValue, lastOp, lastEdit,
                 updateCalled, alerts, nowMs, pending, overwritten, entryVars,
  viewVars>>
outsideInput == <<dateVars, storeVars, archiveVars, budgetVars, appVars, parserVars, classifierVars,
  bootVars,
  viewVars>>

outsideAdd == <<dateVars, archiveVars, budgetVars, clock, alerts, entryVars, bootVars,
  dashVars, permission, analyticsVars>>

None == <<>>
Some(x) == <<x>>

(***************************************************************************)
(* Bounds                                                                  *)
(***************************************************************************)
\* Days drawn on each side of a sampled calendar point.
WindowLen == 8
\* Transactions the store holds at most.
MaxTx == 1
\* Largest amount of one transaction.
MaxAmount == 1
\* Store calls that may fail in one behaviour.
MaxFailures == 1
\* Largest number typed into an income or limit field.
MaxMoney == 2
\* Transactions in a list handed to the alert engine.
MaxAlertTx == 2
\* The value of a configured limit handed to the alert engine.
AlertLimit == 5
\* Expenses in one preview.
MaxPreview == 2
\* Milliseconds that pass in one behaviour.
MaxMs == 1
\* Transactions listed or on their way into the list.
MaxListed == 2
\* Elements of the expenses array in a reply of the classifier.
MaxItems == 2
\* Timers that can be pending at once.
MaxTimers == 2
\* Requests to the classifier that can await their answer at once.
MaxInFlight == 1
\* Transactions the text entry hands to the store.
MaxWritten == 1
\* Transactions in the store when a snapshot is taken.
MaxStatsTx == 3
\* Transactions in a list handed to the analytics engine.
MaxAnalyticsTx == 4

(***************************************************************************)
(* The calendar (what Date, getYear and format compute)                    *)
(***************************************************************************)
IsLeap(y) == (y % 4 = 0 /\ y % 100 # 0) \/ y % 400 = 0

DaysInYear(y) == IF IsLeap(y) THEN 366 ELSE 365

RECURSIVE YearStart(_)
\* Day number of 1 January of year y.
YearStart(y) ==
  IF y = 2024 THEN 0
  ELSE IF y > 2024 THEN YearStart(y - 1) + DaysInYear(y - 1)
  ELSE YearStart(y + 1) - DaysInYear(y)

Years == 2023..2027

\* date-fns getYear / Date.getFullYear: the calendar year of a day.
GetYear(day) == CHOOSE y \in Years : YearStart(y) <= day /\ day < YearStart(y + 1)

DaysInMonth(y, m) ==
  IF m = 2 THEN (IF IsLeap(y) THEN 29 ELSE 28)
  ELSE IF m \in {4, 6, 9, 11} THEN 30 ELSE 31

RECURSIVE MonthStart(_, _)
\* Day-of-year offset at which month m of year y starts (m = 13: the year's length).
MonthStart(y, m) == IF m = 1 THEN 0 ELSE MonthStart(y, m - 1) + DaysInMonth(y, m - 1)

\* Date.getMonth() + 1
GetMonth(day) ==
  LET y == GetYear(day)
      doy == day - YearStart(y)
  IN CHOOSE m \in 1..12 : MonthStart(y, m) <= doy /\ doy < MonthStart(y, m + 1)

\* Date.getDate(): the day of the month
GetDate(day) ==
  LET y == GetYear(day) IN day - YearStart(y) - MonthStart(y, GetMonth(day)) + 1

\* Date.getDay(): 0 is Sunday, 1 is Monday, ... 6 is Saturday.
GetDay(d) == (d.day + 1) % 7

\* Date.setHours(h): sets the local hour field; out-of-range hours carry into the day.
SetHours(d, h) == [day |-> d.day + (h \div 24), hour |-> h % 24]

\* Date.toDateString(): the calendar date, without the time of day.
ToDateString(d) == <<GetYear(d.day), GetMonth(d.day), GetDate(d.day)>>

(***************************************************************************)
(* utils/date.ts                                                           *)
(***************************************************************************)
\* Mutant: Sunday left as day 0 (the "|| 7" dropped).
GetMondaySundayZero(d) ==
  LET day == GetDay(d)
      date == IF day # 1 THEN SetHours(d, (-24) * (day - 1)) ELSE d
  IN ToDateString(date)

\* getMonday, the closure inside isSameWeek.
GetMonday(d) ==
  LET day == IF GetDay(d) = 0 THEN 7 ELSE GetDay(d)
      date == IF day # 1 THEN SetHours(d, (-24) * (day - 1)) ELSE d
  IN ToDateString(date)

IsSameWeek(d1, d2) == GetMonday(d1) = GetMonday(d2)

(***************************************************************************)
(* date-fns ISO week functions, as services/time.ts uses them              *)
(***************************************************************************)
\* startOfISOWeek: the Monday on or before the day.
StartOfISOWeek(day) == day - ((((day + 1) % 7) + 6) % 7)

\* getISOWeekYear
GetISOWeekYear(day) ==
  LET year == GetYear(day)
      startOfNextYear == StartOfISOWeek(YearStart(year + 1) + 3)
      startOfThisYear == StartOfISOWeek(YearStart(year) + 3)
  IN IF day >= startOfNextYear THEN year + 1
     ELSE IF day >= startOfThisYear THEN year
     ELSE year - 1

StartOfISOWeekYear(day) == StartOfISOWeek(YearStart(GetISOWeekYear(day)) + 3)

\* getISOWeek: 1..53
GetISOWeek(day) == ((StartOfISOWeek(day) - StartOfISOWeekYear(day)) \div 7) + 1

\* `${getYear(date)}-W${getISOWeek(date)}`: the two numbers the string is built from.
WeekIdOfDay(day) == <<GetYear(day), "W", GetISOWeek(day)>>

\* format(date, 'yyyy-MM')
MonthIdOfDay(day) == <<GetYear(day), GetMonth(day)>>

\* TimeService.getCurrentWeekId(date)
GetCurrentWeekId(d) == WeekIdOfDay(d.day)

\* TimeService.getCurrentMonthId(date)
GetCurrentMonthId(d) == MonthIdOfDay(d.day)

(***************************************************************************)
(* Specification of the date utility: inputs drawn, functions applied      *)
(***************************************************************************)
\* Days around the start of 2024 and around the 2024/2025 year boundary.
SampleDays ==
  (0..WindowLen) \cup ((YearStart(2025) - WindowLen - 1)..(YearStart(2025) + WindowLen))

Hours == {0, 12, 23}

DateInputs == [day : SampleDays, hour : Hours]

DateIdle ==
  /\ date1 = [day |-> 0, hour |-> 0]
  /\ date2 = [day |-> 0, hour |-> 0]
  /\ sameWeek = None
  /\ weekId1 = None
  /\ weekId2 = None

CallIsSameWeek ==
  /\ sameWeek = None
  /\ sameWeek' = Some(IsSameWeek(date1, date2))
  /\ UNCHANGED <<date1, date2, weekId1, weekId2>>
  /\ UNCHANGED outsideDate

CallGetCurrentWeekId ==
  /\ weekId1 = None
  /\ weekId1' = Some(GetCurrentWeekId(date1))
  /\ weekId2' = Some(GetCurrentWeekId(date2))
  /\ UNCHANGED <<date1, date2, sameWeek>>
  /\ UNCHANGED outsideDate

(***************************************************************************)
(* Transactions and the snapshot statistics (types.ts, services/time.ts)   *)
(***************************************************************************)
Categories ==
  {"Groceries", "Outings", "BodyCare", "Orders", "Miscellaneous", "Petrol",
   "Bills", "Savings", "Other"}

\* CATEGORY_BUCKET_MAP
CategoryBucket(c) ==
  IF c = "Bills" THEN "Monthly" ELSE IF c = "Savings" THEN "Savings" ELSE "Weekly"

RECURSIVE SumAmounts(_)
\* reduce((sum, t) => sum + t.amount, 0) over a collection of transactions
SumAmounts(txs) ==
  IF txs = {} THEN 0
  ELSE LET t == CHOOSE x \in txs : TRUE IN t.amount + SumAmounts(txs \ {t})

\* Mutant: the Savings amounts are counted as spent as well.
StatsOfSavingsSpent(relevantTx) ==
  LET saved == {t \in relevantTx : t.category = "Savings"}
  IN [totalSpent |-> SumAmounts(relevantTx),
      totalSaved |-> SumAmounts(saved),
      categoryBreakdown |->
        [c \in {t.category : t \in relevantTx} |->
           SumAmounts({t \in relevantTx : t.category = c})]]

\* The forEach of calculateStatsForWeekId / calculateStatsForMonthId.
StatsOf(relevantTx) ==
  LET spent == {t \in relevantTx : t.category # "Savings"}
      saved == {t \in relevantTx : t.category = "Savings"}
  IN [totalSpent |-> SumAmounts(spent),
      totalSaved |-> SumAmounts(saved),
      categoryBreakdown |->
        [c \in {t.category : t \in spent} |->
           SumAmounts({t \in spent : t.category = c})]]

\* calculateStatsForWeekId(transactions, weekId)
CalculateStatsForWeekId(txs, weekId) ==
  LET relevantTx == {tx \in txs : WeekIdOfDay(tx.date.day) = weekId}
      stats == StatsOf(relevantTx)
  IN [weekId |-> weekId, totalSpent |-> stats.totalSpent,
      totalSaved |-> stats.totalSaved,
      categoryBreakdown |-> stats.categoryBreakdown, status |-> "completed"]

\* calculateStatsForMonthId(transactions, monthId)
CalculateStatsForMonthId(txs, monthId) ==
  LET relevantTx == {tx \in txs : MonthIdOfDay(tx.date.day) = monthId}
      stats == StatsOf(relevantTx)
  IN [monthId |-> monthId, totalSpent |-> stats.totalSpent,
      totalSaved |-> stats.totalSaved,
      categoryBreakdown |-> stats.categoryBreakdown, isFinalized |-> TRUE]

\* snap.docs.map(d => d.data()): the documents of the transactions collection
AllTx == {txStore[id] : id \in DOMAIN txStore}

\* setDoc(doc(..., k), v): creates the document or overwrites it
SetDoc(docs, k, v) == [x \in DOMAIN docs \cup {k} |-> IF x = k THEN v ELSE docs[x]]

(***************************************************************************)
(* services/time.ts: TimeService.init, one action per awaited store call.  *)
(* A store call either succeeds (ok) or rejects; init catches nothing, so  *)
(* a rejection ends the run at that call.                                  *)
(***************************************************************************)
\* History record of a run that starts now.
NewRun ==
  [week |-> WeekIdOfDay(clock), month |-> MonthIdOfDay(clock), outcome |-> "running",
   stage |-> "getMeta", writes |-> {}, metaAtStart |-> meta]

\* The awaited call rejected: the exception leaves init.
Rejects(stage) ==
  /\ failures < MaxFailures
  /\ failures' = failures + 1
  /\ tsPc' = "idle"
  /\ thisRun' = Some([thisRun[1] EXCEPT !.outcome = "failed", !.stage = stage])

\* init, lines 21-30: read the meta document, take the current identifiers.
GetMeta(ok) ==
  /\ tsPc = "idle"
  /\ prevRun' = thisRun
  /\ IF ok
       THEN /\ tsPc' = "haveMeta"
            /\ tsMeta' = meta
            /\ tsWeekId' = WeekIdOfDay(clock)
            /\ tsMonthId' = MonthIdOfDay(clock)
            /\ thisRun' = Some(NewRun)
            /\ UNCHANGED failures
       ELSE /\ failures < MaxFailures
            /\ failures' = failures + 1
            /\ tsPc' = "idle"
            /\ thisRun' = Some([NewRun EXCEPT !.outcome = "failed"])
            /\ UNCHANGED <<tsMeta, tsWeekId, tsMonthId>>
  /\ UNCHANGED <<clock, meta, historyWeeks, historyMonths, txStore, rewritten>>

\* timeService.init is called and its read of the meta document completes.
TsInit(ok) ==
  /\ GetMeta(ok)
  /\ UNCHANGED outsideArchive

\* Mutant: the first run also snapshots the current week.
TsFirstRunSnapshots(ok) ==
  /\ tsPc = "haveMeta"
  /\ tsMeta = None
  /\ IF ok
       THEN /\ meta' = Some([lastActiveWeek |-> tsWeekId, lastActiveMonth |-> tsMonthId])
            /\ historyWeeks' =
                 SetDoc(historyWeeks, tsWeekId, CalculateStatsForWeekId(AllTx, tsWeekId))
            /\ tsPc' = "idle"
            /\ thisRun' = Some([thisRun[1] EXCEPT !.outcome = "ok", !.stage = "return"])
            /\ UNCHANGED failures
       ELSE /\ Rejects("firstRun")
            /\ UNCHANGED <<meta, historyWeeks>>
  /\ UNCHANGED <<clock, historyMonths, txStore, tsMeta, tsWeekId,
                 tsMonthId, prevRun, rewritten>>
  /\ UNCHANGED outsideArchive

\* init, lines 32-39: no meta document yet.
TsFirstRun(ok) ==
  /\ tsPc = "haveMeta"
  /\ tsMeta = None
  /\ IF ok
       THEN /\ meta' = Some([lastActiveWeek |-> tsWeekId, lastActiveMonth |-> tsMonthId])
            /\ tsPc' = "idle"
            /\ thisRun' = Some([thisRun[1] EXCEPT !.outcome = "ok", !.stage = "return"])
            /\ UNCHANGED failures
       ELSE /\ Rejects("firstRun")
            /\ UNCHANGED meta
  /\ UNCHANGED <<clock, historyWeeks, historyMonths, txStore, tsMeta, tsWeekId,
                 tsMonthId, prevRun, rewritten>>
  /\ UNCHANGED outsideArchive

\* Mutant: a rejected archiveWeek is swallowed and init goes on to the meta update.
TsArchiveWeekSwallows(ok) ==
  /\ tsPc = "haveMeta"
  /\ tsMeta # None
  /\ tsMeta[1].lastActiveWeek # tsWeekId
  /\ IF ok
       THEN LET weekId == tsMeta[1].lastActiveWeek IN
            /\ historyWeeks' =
                 SetDoc(historyWeeks, weekId, CalculateStatsForWeekId(AllTx, weekId))
            /\ rewritten' =
                 IF weekId \in DOMAIN historyWeeks
                   THEN rewritten \cup {<<"week", weekId>>} ELSE rewritten
            /\ tsPc' = "weekArchived"
            /\ thisRun' = Some([thisRun[1] EXCEPT
                                  !.writes = @ \cup {<<"week", weekId>>},
                                  !.stage = "updateWeek"])
            /\ UNCHANGED failures
       ELSE /\ failures < MaxFailures
            /\ failures' = failures + 1
            /\ tsPc' = "weekArchived"
            /\ thisRun' = Some([thisRun[1] EXCEPT !.stage = "archiveWeekFailed"])
            /\ UNCHANGED <<historyWeeks, rewritten>>
  /\ UNCHANGED <<clock, meta, historyMonths, txStore, tsMeta, tsWeekId, tsMonthId, prevRun>>
  /\ UNCHANGED outsideArchive

\* init, lines 44-46 and archiveWeek, lines 58-95: snapshot the stored week.
TsArchiveWeek(ok) ==
  /\ tsPc = "haveMeta"
  /\ tsMeta # None
  /\ tsMeta[1].lastActiveWeek # tsWeekId
  /\ IF ok
       THEN LET weekId == tsMeta[1].lastActiveWeek IN
            /\ historyWeeks' =
                 SetDoc(historyWeeks, weekId, CalculateStatsForWeekId(AllTx, weekId))
            /\ rewritten' =
                 IF weekId \in DOMAIN historyWeeks
                   THEN rewritten \cup {<<"week", weekId>>} ELSE rewritten
            /\ tsPc' = "weekArchived"
            /\ thisRun' = Some([thisRun[1] EXCEPT
                                  !.writes = @ \cup {<<"week", weekId>>},
                                  !.stage = "updateWeek"])
            /\ UNCHANGED failures
       ELSE /\ Rejects("archiveWeek")
            /\ UNCHANGED <<historyWeeks, rewritten>>
  /\ UNCHANGED <<clock, meta, historyMonths, txStore, tsMeta, tsWeekId, tsMonthId, prevRun>>
  /\ UNCHANGED outsideArchive

\* Mutant: the week snapshot is written but lastActiveWeek is never advanced.
TsUpdateWeekSkipped(ok) ==
  /\ tsPc = "weekArchived"
  /\ IF ok
       THEN /\ tsPc' = "weekDone"
            /\ thisRun' = Some([thisRun[1] EXCEPT !.stage = "monthCheck"])
            /\ UNCHANGED <<failures, meta>>
       ELSE /\ Rejects("updateWeek")
            /\ UNCHANGED meta
  /\ UNCHANGED <<clock, historyWeeks, historyMonths, txStore, tsMeta, tsWeekId,
                 tsMonthId, prevRun, rewritten>>
  /\ UNCHANGED outsideArchive

\* init, line 47: updateDoc(metaRef, { lastActiveWeek: currentWeekId })
TsUpdateWeek(ok) ==
  /\ tsPc = "weekArchived"
  /\ IF ok
       THEN /\ meta' = Some([meta[1] EXCEPT !.lastActiveWeek = tsWeekId])
            /\ tsPc' = "weekDone"
            /\ thisRun' = Some([thisRun[1] EXCEPT !.stage = "monthCheck"])
            /\ UNCHANGED failures
       ELSE /\ Rejects("updateWeek")
            /\ UNCHANGED meta
  /\ UNCHANGED <<clock, historyWeeks, historyMonths, txStore, tsMeta, tsWeekId,
                 tsMonthId, prevRun, rewritten>>
  /\ UNCHANGED outsideArchive

\* init has reached the month check of line 51.
AtMonthCheck ==
  \/ tsPc = "weekDone"
  \/ tsPc = "haveMeta" /\ tsMeta # None /\ tsMeta[1].lastActiveWeek = tsWeekId

\* init, lines 51-53 and archiveMonth, lines 97-110: snapshot the stored month.
TsArchiveMonth(ok) ==
  /\ AtMonthCheck
  /\ tsMeta[1].lastActiveMonth # tsMonthId
  /\ IF ok
       THEN LET monthId == tsMeta[1].lastActiveMonth IN
            /\ historyMonths' =
                 SetDoc(historyMonths, monthId, CalculateStatsForMonthId(AllTx, monthId))
            /\ rewritten' =
                 IF monthId \in DOMAIN historyMonths
                   THEN rewritten \cup {<<"month", monthId>>} ELSE rewritten
            /\ tsPc' = "monthArchived"
            /\ thisRun' = Some([thisRun[1] EXCEPT
                                  !.writes = @ \cup {<<"month", monthId>>},
                                  !.stage = "updateMonth"])
            /\ UNCHANGED failures
       ELSE /\ Rejects("archiveMonth")
            /\ UNCHANGED <<historyMonths, rewritten>>
  /\ UNCHANGED <<clock, meta, historyWeeks, txStore, tsMeta, tsWeekId, tsMonthId, prevRun>>
  /\ UNCHANGED outsideArchive

\* init, lines 54-56: updateDoc(metaRef, { lastActiveMonth: currentMonthId }), return.
TsUpdateMonth(ok) ==
  /\ tsPc = "monthArchived"
  /\ IF ok
       THEN /\ meta' = Some([meta[1] EXCEPT !.lastActiveMonth = tsMonthId])
            /\ tsPc' = "idle"
            /\ thisRun' = Some([thisRun[1] EXCEPT !.outcome = "ok", !.stage = "return"])
            /\ UNCHANGED failures
       ELSE /\ Rejects("updateMonth")
            /\ UNCHANGED meta
  /\ UNCHANGED <<clock, historyWeeks, historyMonths, txStore, tsMeta, tsWeekId,
                 tsMonthId, prevRun, rewritten>>
  /\ UNCHANGED outsideArchive

\* init, lines 51 and 56: the month is unchanged, init returns.
TsReturn ==
  /\ AtMonthCheck
  /\ tsMeta[1].lastActiveMonth = tsMonthId
  /\ tsPc' = "idle"
  /\ thisRun' = Some([thisRun[1] EXCEPT !.outcome = "ok", !.stage = "return"])
  /\ UNCHANGED <<clock, meta, historyWeeks, historyMonths, txStore, tsMeta, tsWeekId,
                 tsMonthId, failures, prevRun, rewritten>>
  /\ UNCHANGED outsideArchive

\* Days on which a session starts: the first weeks of 2024 and the turn of the year.
SessionDays == {0, 7, YearStart(2025) - 2, YearStart(2025) + 5}

\* Time passes between two sessions.
AdvanceClock(d) ==
  /\ tsPc = "idle"
  /\ d > clock
  /\ clock' = d
  /\ UNCHANGED <<meta, historyWeeks, historyMonths, txStore, tsPc, tsMeta, tsWeekId,
                 tsMonthId, failures, thisRun, prevRun, rewritten>>
  /\ UNCHANGED outsideArchive

\* Categories of the transactions drawn as inputs: one per bucket.
InputCategories == {"Groceries", "Bills", "Savings"}

\* A committed expense reaches the store (storage.ts addTransaction, setDoc by id).
StoreTransaction(amount, category, day) ==
  /\ tsPc = "idle"
  /\ Cardinality(DOMAIN txStore) < MaxTx
  /\ LET id == Cardinality(DOMAIN txStore) + 1 IN
       txStore' = SetDoc(txStore, id,
                         [id |-> id, amount |-> amount, category |-> category,
                          date |-> [day |-> day, hour |-> 12]])
  /\ UNCHANGED <<clock, meta, historyWeeks, historyMonths, tsPc, tsMeta, tsWeekId,
                 tsMonthId, failures, thisRun, prevRun, rewritten>>
  /\ UNCHANGED outsideArchive

StoreIdle ==
  /\ clock = 0
  /\ txStore = <<>>

ArchiveIdle ==
  /\ meta = None
  /\ historyWeeks = <<>>
  /\ historyMonths = <<>>
  /\ tsPc = "idle"
  /\ tsMeta = None
  /\ tsWeekId = None
  /\ tsMonthId = None
  /\ failures = 0
  /\ thisRun = None
  /\ prevRun = None
  /\ rewritten = {}

ArchiverStep(ok) ==
  \/ TsInit(ok)
  \/ TsFirstRun(ok)
  \/ TsArchiveWeek(ok)
  \/ TsUpdateWeek(ok)
  \/ TsArchiveMonth(ok)
  \/ TsUpdateMonth(ok)

ArchiveEnvironment ==
  \/ \E d \in SessionDays : AdvanceClock(d)
  \/ \E a \in 1..MaxAmount, c \in InputCategories : StoreTransaction(a, c, clock)

\* Wednesday of the week before AlertToday's, and Tuesday of AlertToday's
\* week; both days are of the month before.
StatsDays == {YearStart(2024) + MonthStart(2024, 2) - 8,
              YearStart(2024) + MonthStart(2024, 2) - 2}

\* The transactions a store holds when a session starts on AlertToday.
StatsStores ==
  UNION { [1..n -> [amount : {1, 2}, category : InputCategories,
                    date : [day : StatsDays, hour : {12}]]] : n \in 0..MaxStatsTx }

\* The documents of a store that holds the transactions txs, by their ids.
StoreOf(txs) ==
  [i \in DOMAIN txs |-> [id |-> i, amount |-> txs[i].amount,
                         category |-> txs[i].category, date |-> txs[i].date]]

\* The HistoryMeta documents a session can find: none, or the identifiers of
\* an earlier session's day.
StatsMetas ==
  {None} \cup {Some([lastActiveWeek |-> WeekIdOfDay(d), lastActiveMonth |-> MonthIdOfDay(d)]) :
                 d \in StatsDays \cup {YearStart(2024) + MonthStart(2024, 2)}}

\* One session's run of the archiver, no store call rejected.
NextSnapshot ==
  \/ ArchiverStep(TRUE)
  \/ TsReturn

\* The store may reject any call.
NextArchive ==
  \/ \E ok \in BOOLEAN : ArchiverStep(ok)
  \/ TsReturn
  \/ ArchiveEnvironment

\* The store never rejects a call.
NextArchiveReliable ==
  \/ ArchiverStep(TRUE)
  \/ TsReturn
  \/ ArchiveEnvironment

(***************************************************************************)
(* The budget: services/storage.ts default, BudgetSetup, Dashboard edit    *)
(***************************************************************************)
\* The text of a number field: empty, or a numeral.
EmptyText == <<"text">>
Numeral(n) == <<"text", n>>

\* parseFloat: None stands for NaN.
ParseFloat(text) == IF Len(text) = 2 THEN Some(text[2]) ELSE None

\* Number.prototype.toString()
NumberToString(n) == Numeral(n)

\* What a user can type into a number field.
TypedTexts == {EmptyText} \cup {Numeral(n) : n \in (-1)..MaxMoney}

\* weeklyCategoryLimits of the default budget (storage.ts, lines 67-74)
DefaultCategoryLimits ==
  [c \in {"Groceries", "Outings", "BodyCare", "Orders", "Miscellaneous", "Petrol"} |-> 0]

\* loadBudget's result when no budget document exists (storage.ts, lines 61-77)
DefaultBudget ==
  [monthlyIncome |-> 0,
   allocations |-> [weeklyLimit |-> 0, monthlyLimit |-> 0, savingsTarget |-> 0,
                    weeklyCategoryLimits |-> DefaultCategoryLimits],
   isSet |-> FALSE]

\* useState initial value of BudgetSetup's allocations
InitialAllocations == [weeklyLimit |-> 0, monthlyLimit |-> 0, savingsTarget |-> 0]

\* The history variables after a handler ran.
Ran(op, edit, updated) ==
  /\ lastOp' = op
  /\ lastEdit' = edit
  /\ updateCalled' = updated

\* BudgetSetup.handleIncomeChange(val)
HandleIncomeChange(val) ==
  /\ ~budget.isSet
  /\ income' = val
  /\ LET num == ParseFloat(val) IN
       allocations' =
         IF num # None /\ num[1] > 0
           THEN [monthlyLimit |-> (num[1] * 5) \div 10,
                 weeklyLimit |-> (num[1] * 3) \div 40,
                 savingsTarget |-> (num[1] * 2) \div 10]
           ELSE allocations
  /\ Ran("handleIncomeChange", None, FALSE)
  /\ UNCHANGED <<budget, editing, editValue>>
  /\ UNCHANGED outsideBudget

\* BudgetSetup.handleAllocationChange(key, val)
HandleAllocationChange(key, val) ==
  /\ ~budget.isSet
  /\ LET num == ParseFloat(val) IN
       allocations' = [allocations EXCEPT ![key] = IF num = None THEN 0 ELSE num[1]]
  /\ Ran("handleAllocationChange", None, FALSE)
  /\ UNCHANGED <<budget, income, editing, editValue>>
  /\ UNCHANGED outsideBudget

\* parseFloat(income) || 0
IncomeNum == IF ParseFloat(income) = None THEN 0 ELSE ParseFloat(income)[1]

\* BudgetSetup isValid
IsValid == IncomeNum > 0 /\ allocations.weeklyLimit > 0

\* The BudgetState BudgetSetup.handleSubmit hands to onComplete.
SetupBudget == [monthlyIncome |-> IncomeNum, allocations |-> allocations, isSet |-> TRUE]

\* BudgetSetup.handleSubmit with handleBudgetComplete; the form unmounts once
\* the budget is set, and mounts with its initial state after a reset.
HandleSetupSubmit ==
  /\ ~budget.isSet
  /\ IF IsValid
       THEN /\ budget' = SetupBudget
            /\ income' = EmptyText
            /\ allocations' = InitialAllocations
       ELSE UNCHANGED <<budget, income, allocations>>
  /\ Ran("handleSubmit", None, FALSE)
  /\ UNCHANGED <<editing, editValue>>
  /\ UNCHANGED outsideBudget

\* onResetBudget: setBudget({ ...budget, isSet: false }); the Dashboard unmounts.
OnResetBudget ==
  /\ budget.isSet
  /\ budget' = [budget EXCEPT !.isSet = FALSE]
  /\ editing' = None
  /\ editValue' = EmptyText
  /\ Ran("onResetBudget", None, FALSE)
  /\ UNCHANGED <<income, allocations>>
  /\ UNCHANGED outsideBudget

\* Dashboard limits[key]
LimitOf(key) ==
  IF key = "Weekly" THEN budget.allocations.weeklyLimit
  ELSE IF key = "Monthly" THEN budget.allocations.monthlyLimit
  ELSE budget.allocations.savingsTarget

\* Dashboard.handleStartEdit(key, limits[key])
HandleStartEdit(key) ==
  /\ budget.isSet
  /\ editing # Some(key)
  /\ editing' = Some(key)
  /\ editValue' = NumberToString(LimitOf(key))
  /\ Ran("handleStartEdit", None, FALSE)
  /\ UNCHANGED <<budget, income, allocations>>
  /\ UNCHANGED outsideBudget

\* The edit field's onChange: setEditValue(e.target.value)
HandleEditChange(text) ==
  /\ budget.isSet
  /\ editing # None
  /\ editValue' = text
  /\ Ran("onChange", None, FALSE)
  /\ UNCHANGED <<budget, income, allocations, editing>>
  /\ UNCHANGED outsideBudget

\* Mutant: handleSaveEdit without the savings-goal validation of lines 160-166.
HandleSaveEditUnvalidated ==
  /\ budget.isSet
  /\ editing # None
  /\ LET val == ParseFloat(editValue)
         key == editing[1]
     IN /\ IF val # None /\ val[1] >= 0
             THEN /\ budget' =
                       [budget EXCEPT
                          !.allocations.weeklyLimit = IF key = "Weekly" THEN val[1] ELSE @,
                          !.allocations.monthlyLimit = IF key = "Monthly" THEN val[1] ELSE @,
                          !.allocations.savingsTarget = IF key = "Savings" THEN val[1] ELSE @]
                  /\ editing' = None
                  /\ UNCHANGED editValue
                  /\ Ran("handleSaveEdit", Some([key |-> key, val |-> val]), TRUE)
             ELSE /\ editing' = None
                  /\ UNCHANGED <<budget, editValue>>
                  /\ Ran("handleSaveEdit", Some([key |-> key, val |-> val]), FALSE)
  /\ UNCHANGED <<income, allocations>>
  /\ UNCHANGED outsideBudget

\* Dashboard.handleSaveEdit (Enter, or the edit field losing focus)
HandleSaveEdit ==
  /\ budget.isSet
  /\ editing # None
  /\ LET val == ParseFloat(editValue)
         key == editing[1]
     IN /\ IF val # None /\ val[1] >= 0
             THEN IF key = "Savings" /\ val[1] > budget.monthlyIncome
                    THEN /\ editValue' = NumberToString(budget.allocations.savingsTarget)
                         /\ editing' = None
                         /\ UNCHANGED budget
                         /\ Ran("handleSaveEdit", Some([key |-> key, val |-> val]), FALSE)
                    ELSE /\ budget' =
                              [budget EXCEPT
                                 !.allocations.weeklyLimit =
                                    IF key = "Weekly" THEN val[1] ELSE @,
                                 !.allocations.monthlyLimit =
                                    IF key = "Monthly" THEN val[1] ELSE @,
                                 !.allocations.savingsTarget =
                                    IF key = "Savings" THEN val[1] ELSE @]
                         /\ editing' = None
                         /\ UNCHANGED editValue
                         /\ Ran("handleSaveEdit", Some([key |-> key, val |-> val]), TRUE)
             ELSE /\ editing' = None
                  /\ UNCHANGED <<budget, editValue>>
                  /\ Ran("handleSaveEdit", Some([key |-> key, val |-> val]), FALSE)
  /\ UNCHANGED <<income, allocations>>
  /\ UNCHANGED outsideBudget

\* Dashboard.handleKeyDown, Escape: setEditing(null)
HandleEscape ==
  /\ budget.isSet
  /\ editing # None
  /\ editing' = None
  /\ Ran("escape", None, FALSE)
  /\ UNCHANGED <<budget, income, allocations, editValue>>
  /\ UNCHANGED outsideBudget

\* { ...limits, [category]: val }; spreading an absent object adds nothing
WithLimit(limits, category, val) ==
  [c \in DOMAIN limits \cup {category} |-> IF c = category THEN val ELSE limits[c]]

\* { ...allocations, weeklyCategoryLimits: newLimits }
WithCategoryLimits(alloc, newLimits) ==
  [k \in DOMAIN alloc \cup {"weeklyCategoryLimits"} |->
     IF k = "weeklyCategoryLimits" THEN newLimits ELSE alloc[k]]

\* budget.allocations.weeklyCategoryLimits, nothing when the budget has none
WeeklyCategoryLimits(b) ==
  IF "weeklyCategoryLimits" \in DOMAIN b.allocations
    THEN b.allocations.weeklyCategoryLimits
    ELSE <<>>

\* WeeklySpending.handleSaveEdit with editingCategory = category and
\* editValue = text, in the weekly view of a budget that is set.
HandleSaveCategoryEdit(category, text) ==
  /\ budget.isSet
  /\ LET val == ParseFloat(text)
     IN IF val # None /\ val[1] >= 0
          THEN /\ budget' =
                    [budget EXCEPT !.allocations =
                       WithCategoryLimits(@, WithLimit(WeeklyCategoryLimits(budget),
                                                       category, val[1]))]
               /\ Ran("handleSaveCategoryEdit", Some([key |-> category, val |-> val]), TRUE)
          ELSE /\ UNCHANGED budget
               /\ Ran("handleSaveCategoryEdit", Some([key |-> category, val |-> val]), FALSE)
  /\ UNCHANGED <<income, allocations, editing, editValue>>
  /\ UNCHANGED outsideBudget

BudgetIdle ==
  /\ budget = DefaultBudget
  /\ income = EmptyText
  /\ allocations = InitialAllocations
  /\ editing = None
  /\ editValue = EmptyText
  /\ lastOp = "mount"
  /\ lastEdit = None
  /\ updateCalled = FALSE

EditKeys == {"Weekly", "Monthly", "Savings"}

AllocationKeys == {"weeklyLimit", "monthlyLimit", "savingsTarget"}

NextBudget ==
  \/ \E val \in TypedTexts : HandleIncomeChange(val)
  \/ \E key \in AllocationKeys, val \in TypedTexts : HandleAllocationChange(key, val)
  \/ HandleSetupSubmit
  \/ OnResetBudget
  \/ \E key \in EditKeys : HandleStartEdit(key)
  \/ \E text \in TypedTexts : HandleEditChange(text)
  \/ HandleSaveEdit
  \/ HandleEscape

\* What is typed in the sessions that edit the per-category limits.
LimitTexts == {EmptyText, Numeral(1), Numeral(2)}

\* MANDATORY_CATEGORIES of WeeklySpending, two of them edited
EditedCategories == {"Groceries", "Petrol"}

\* The budget handlers with the per-category edit of the weekly view.
NextLimits ==
  \/ \E category \in EditedCategories, text \in LimitTexts :
       HandleSaveCategoryEdit(category, text)
  \/ OnResetBudget
  \/ \E val \in LimitTexts : HandleIncomeChange(val)
  \/ \E key \in AllocationKeys, val \in LimitTexts : HandleAllocationChange(key, val)
  \/ HandleSetupSubmit
  \/ \E key \in EditKeys : HandleStartEdit(key)
  \/ \E text \in LimitTexts : HandleEditChange(text)
  \/ HandleSaveEdit

(***************************************************************************)
(* utils/analytics.ts: the alert engine                                    *)
(***************************************************************************)
\* Date.toISOString(), with the local time zone taken to be UTC.
ToISOString(d) == <<GetYear(d.day), GetMonth(d.day), GetDate(d.day), "T", d.hour>>

\* toISOString().split('T')[0]
TodayStr(now) == SubSeq(ToISOString(now), 1, 3)

\* todayStr.substring(0, 7): YYYY-MM
CurrentMonthStr(now) == SubSeq(TodayStr(now), 1, 2)

\* String.prototype.startsWith
StartsWith(str, prefix) ==
  Len(str) >= Len(prefix) /\ SubSeq(str, 1, Len(prefix)) = prefix

RECURSIVE ReduceAmounts(_)
\* reduce((sum, t) => sum + t.amount, 0) over an array of transactions
ReduceAmounts(txs) ==
  IF txs = <<>> THEN 0 ELSE Head(txs).amount + ReduceAmounts(Tail(txs))

\* weeklyBucketTotal
WeeklyBucketTotal(txs, now) ==
  ReduceAmounts(SelectSeq(txs, LAMBDA t :
    IsSameWeek(t.date, now) /\ CategoryBucket(t.category) = "Weekly"))

\* monthlyBucketTotal
MonthlyBucketTotal(txs, now) ==
  ReduceAmounts(SelectSeq(txs, LAMBDA t :
    StartsWith(ToISOString(t.date), CurrentMonthStr(now))
      /\ CategoryBucket(t.category) = "Monthly"))

\* currentSavings = budget.monthlyIncome - totalSpentAll
CurrentSavings(b, txs) == b.monthlyIncome - ReduceAmounts(txs)

\* The amounts are whole numbers, and for whole numbers "spent >= limit * 0.8"
\* is "10 * spent >= 8 * limit": the double 0.8 exceeds 4/5 by less than one
\* part in 2^54, so limit * 0.8 rounds to 4 * limit / 5 when that is a whole
\* number and otherwise stays strictly between the same two whole numbers.
AtEightyPercent(spent, limit) == 10 * spent >= 8 * limit

\* Mutant: the warning starts above 80% of the weekly limit, not at it.
WeeklyAlertsAboveEighty(b, txs, now) ==
  LET weeklyLimit == b.allocations.weeklyLimit
      weeklyBucketTotal == WeeklyBucketTotal(txs, now)
  IN IF weeklyLimit > 0
       THEN IF weeklyBucketTotal > weeklyLimit
              THEN << [id |-> <<"weekly", "critical", TodayStr(now)>>,
                       type |-> "critical",
                       title |-> "Weekly Limit Exceeded",
                       message |-> <<weeklyBucketTotal, weeklyLimit>>] >>
            ELSE IF 10 * weeklyBucketTotal > 8 * weeklyLimit
              THEN << [id |-> <<"weekly", "warning", TodayStr(now)>>,
                       type |-> "warning",
                       title |-> "Approaching Weekly Limit",
                       message |-> <<weeklyBucketTotal, weeklyLimit>>] >>
            ELSE <<>>
       ELSE <<>>

\* generateAlerts, "Weekly Spending Limit"
WeeklyAlerts(b, txs, now) ==
  LET weeklyLimit == b.allocations.weeklyLimit
      weeklyBucketTotal == WeeklyBucketTotal(txs, now)
  IN IF weeklyLimit > 0
       THEN IF weeklyBucketTotal > weeklyLimit
              THEN << [id |-> <<"weekly", "critical", TodayStr(now)>>,
                       type |-> "critical",
                       title |-> "Weekly Limit Exceeded",
                       message |-> <<weeklyBucketTotal, weeklyLimit>>] >>
            ELSE IF AtEightyPercent(weeklyBucketTotal, weeklyLimit)
              THEN << [id |-> <<"weekly", "warning", TodayStr(now)>>,
                       type |-> "warning",
                       title |-> "Approaching Weekly Limit",
                       message |-> <<weeklyBucketTotal, weeklyLimit>>] >>
            ELSE <<>>
       ELSE <<>>

\* budget.allocations.weeklyCategoryLimits || {}
CategoryLimits(b) ==
  IF "weeklyCategoryLimits" \in DOMAIN b.allocations
    THEN b.allocations.weeklyCategoryLimits
    ELSE <<>>

\* The order in which Object.keys lists the categories of weeklyCategoryLimits.
CategoryOrder ==
  <<"Groceries", "Outings", "BodyCare", "Orders", "Miscellaneous", "Petrol",
    "Bills", "Savings", "Other">>

\* The body of the forEach over the per-category limits, for one category.
CategoryAlert(b, txs, now, cat) ==
  LET limit == CategoryLimits(b)[cat]
      catSpent == ReduceAmounts(SelectSeq(txs, LAMBDA t :
                    IsSameWeek(t.date, now) /\ t.category = cat))
  IN IF limit <= 0 THEN <<>>
     ELSE IF catSpent > limit
       THEN << [id |-> <<"weekly", "cat", "critical", cat, TodayStr(now)>>,
                type |-> "critical",
                title |-> <<cat, "Limit Exceeded">>,
                message |-> <<catSpent, cat, limit>>] >>
     ELSE IF AtEightyPercent(catSpent, limit)
       THEN << [id |-> <<"weekly", "cat", "warning", cat, TodayStr(now)>>,
                type |-> "warning",
                title |-> <<cat, "Budget Low">>,
                message |-> <<catSpent, cat, limit>>] >>
     ELSE <<>>

RECURSIVE CategoryAlertsFrom(_, _, _, _)
\* generateAlerts, "Category-Specific Weekly Limits", from the k-th category on
CategoryAlertsFrom(b, txs, now, k) ==
  IF k > Len(CategoryOrder) THEN <<>>
  ELSE (IF CategoryOrder[k] \in DOMAIN CategoryLimits(b)
          THEN CategoryAlert(b, txs, now, CategoryOrder[k])
          ELSE <<>>)
       \o CategoryAlertsFrom(b, txs, now, k + 1)

\* generateAlerts, "Monthly Expense Limit"
MonthlyAlerts(b, txs, now) ==
  LET monthlyLimit == b.allocations.monthlyLimit
      monthlyBucketTotal == MonthlyBucketTotal(txs, now)
  IN IF monthlyLimit > 0
       THEN IF monthlyBucketTotal > monthlyLimit
              THEN << [id |-> <<"monthly", "critical", CurrentMonthStr(now)>>,
                       type |-> "critical",
                       title |-> "Monthly Expense Limit Exceeded",
                       message |-> <<monthlyBucketTotal, monthlyLimit>>] >>
            ELSE IF AtEightyPercent(monthlyBucketTotal, monthlyLimit)
              THEN << [id |-> <<"monthly", "warning", CurrentMonthStr(now)>>,
                       type |-> "warning",
                       title |-> "Approaching Monthly Expense Limit",
                       message |-> <<monthlyBucketTotal, monthlyLimit>>] >>
            ELSE <<>>
       ELSE <<>>

\* Mutant: the savings balance counts this month's transactions only.
SavingsAlertsThisMonth(b, txs, now) ==
  LET savingsTarget == b.allocations.savingsTarget
      currentSavings ==
        b.monthlyIncome - ReduceAmounts(SelectSeq(txs, LAMBDA t :
          StartsWith(ToISOString(t.date), CurrentMonthStr(now))))
  IN IF savingsTarget > 0
       THEN IF currentSavings >= savingsTarget
              THEN << [id |-> <<"savings", "success", CurrentMonthStr(now)>>,
                       type |-> "success",
                       title |-> "Savings Goal Reached!",
                       message |-> <<currentSavings, savingsTarget>>] >>
              ELSE << [id |-> <<"savings", "warning", CurrentMonthStr(now)>>,
                       type |-> "warning",
                       title |-> "Savings Below Goal",
                       message |-> <<currentSavings, savingsTarget>>] >>
       ELSE <<>>

\* generateAlerts, "Savings Goal"
SavingsAlerts(b, txs, now) ==
  LET savingsTarget == b.allocations.savingsTarget
      currentSavings == CurrentSavings(b, txs)
  IN IF savingsTarget > 0
       THEN IF currentSavings >= savingsTarget
              THEN << [id |-> <<"savings", "success", CurrentMonthStr(now)>>,
                       type |-> "success",
                       title |-> "Savings Goal Reached!",
                       message |-> <<currentSavings, savingsTarget>>] >>
              ELSE << [id |-> <<"savings", "warning", CurrentMonthStr(now)>>,
                       type |-> "warning",
                       title |-> "Savings Below Goal",
                       message |-> <<currentSavings, savingsTarget>>] >>
       ELSE <<>>

\* generateAlerts(budget, transactions), with now = new Date()
GenerateAlerts(b, txs, now) ==
  WeeklyAlerts(b, txs, now) \o CategoryAlertsFrom(b, txs, now, 1)
    \o MonthlyAlerts(b, txs, now) \o SavingsAlerts(b, txs, now)

\* new Date() at the time of the call: noon of the current day.
Now == [day |-> clock, hour |-> 12]

\* The Dashboard's alert effect calls generateAlerts(budget, transactions).
CallGenerateAlerts ==
  /\ alerts = None
  /\ alerts' = Some(GenerateAlerts(budget, transactions, Now))
  /\ UNCHANGED <<clock, budget, income, allocations, editing, editValue, lastOp,
                 lastEdit, updateCalled, transactions>>
  /\ UNCHANGED outsideAlerts

AppIdle ==
  /\ transactions = <<>>
  /\ alerts = None
  /\ nowMs = 0
  /\ pending = <<>>
  /\ overwritten = {}

\* The budgets handed to the alert engine: each limit unset or set, the
\* per-category limits absent (a budget made by the setup form) or present.
AlertBudgets ==
  { [monthlyIncome |-> inc, allocations |-> alloc, isSet |-> TRUE] :
      inc \in {0, 2 * AlertLimit},
      alloc \in
        [weeklyLimit : {0, AlertLimit}, monthlyLimit : {0, AlertLimit},
         savingsTarget : {0, AlertLimit}]
        \cup
        [weeklyLimit : {0, AlertLimit}, monthlyLimit : {0, AlertLimit},
         savingsTarget : {0, AlertLimit},
         weeklyCategoryLimits : {[Groceries |-> AlertLimit, Outings |-> 0]}] }

\* Thursday 2024-02-01: its week began in January.
AlertToday == YearStart(2024) + MonthStart(2024, 2)

\* Today, Tuesday of this week (last month), and Friday of last week.
AlertTxDays == {AlertToday, AlertToday - 2, AlertToday - 6}

\* Amounts whose sums fall below, at and above 80% and 100% of AlertLimit.
AlertAmounts == {1, AlertLimit - 1}

AlertCategories == {"Groceries", "Outings", "Bills", "Savings"}

\* The transaction lists handed to the alert engine.
AlertTransactions ==
  UNION { [1..n -> [id : {NumberToString(0)}, amount : AlertAmounts,
                    category : AlertCategories,
                    date : [day : AlertTxDays, hour : {0}]]] : n \in 0..MaxAlertTx }

NextAlerts == CallGenerateAlerts

(***************************************************************************)
(* services/notifications.ts and checkAndSendNotifications                 *)
(***************************************************************************)
\* NotificationService.send(title, body, tag) under the permission perm: the
\* notifications shown, by the service worker or by the Notification API.
Send(perm, title, body, tag) ==
  IF perm = "granted"
    THEN <<[title |-> title, body |-> body, tag |-> tag]>>
    ELSE <<>>

RECURSIVE ForEachAlertSend(_, _, _)
\* alerts.forEach(alert => ...) of checkAndSendNotifications, from the k-th on
ForEachAlertSend(perm, alertList, k) ==
  IF k > Len(alertList) THEN <<>>
  ELSE (IF alertList[k].type = "critical" \/ alertList[k].type = "warning"
             \/ alertList[k].type = "success"
          THEN Send(perm, alertList[k].title, alertList[k].message, alertList[k].id)
          ELSE <<>>)
       \o ForEachAlertSend(perm, alertList, k + 1)

\* checkAndSendNotifications(alerts): the notifications it sends
CheckAndSendNotifications(perm, alertList) ==
  IF perm # "granted" THEN <<>> ELSE ForEachAlertSend(perm, alertList, 1)

\* The check handleAddTransaction triggers from its setTransactions updater,
\* for the list updated: the alerts checked, the permission at the check and
\* the notifications sent.
NotificationCheck(b, updated, now, perm) ==
  [alerts |-> GenerateAlerts(b, updated, now),
   permission |-> perm,
   sent |-> CheckAndSendNotifications(perm, GenerateAlerts(b, updated, now))]

\* NotificationService.requestPermission(): the user's answer is stored.
RequestPermission(result) ==
  /\ permission' = result
  /\ UNCHANGED notified
  /\ UNCHANGED <<dateVars, storeVars, archiveVars, budgetVars, appVars, entryVars,
                 bootVars, dashVars, analyticsVars>>

NotifyIdle ==
  /\ permission = "default"
  /\ notified = None

(***************************************************************************)
(* App.tsx and TransactionInput.tsx: committing and deleting transactions  *)
(***************************************************************************)
\* A null category of a ParsedExpense.
NullCategory == "null"

\* The expenses a preview can hold; an amount of 0 stands for 0 and for null.
ParsedExpenses ==
  [amount : 0..MaxAmount, category : {"Groceries", NullCategory}]

Previews == UNION { [1..n -> ParsedExpenses] : n \in 1..MaxPreview }

\* handleAddTransaction(parsed) up to its await, called when Date.now() is ms:
\* the guard, the new Transaction, and the setDoc of storage.addTransaction.
\* st holds the store, the suspended handlers and the overwritten ids so far.
AddTransactionCall(st, parsed, ms) ==
  IF parsed.amount = 0 \/ parsed.category = NullCategory THEN st
  ELSE LET newTransaction ==
             [id |-> NumberToString(ms),
              amount |-> parsed.amount,
              category |-> parsed.category,
              date |-> [day |-> clock, hour |-> 12]]
       IN [store |-> SetDoc(st.store, newTransaction.id, newTransaction),
           pending |-> Append(st.pending, [op |-> "add", tx |-> newTransaction]),
           overwritten |->
             st.overwritten \cup (DOMAIN st.store \cap {newTransaction.id})]

RECURSIVE ForEachAdd(_, _, _, _)
\* preview.forEach(item => onAddTransaction(item)) from the k-th item on, with
\* elapsed milliseconds passing from one call to the next.
ForEachAdd(st, preview, k, elapsed) ==
  IF k > Len(preview) THEN st
  ELSE ForEachAdd(AddTransactionCall(st, preview[k], nowMs + (k - 1) * elapsed),
                  preview, k + 1, elapsed)

\* TransactionInput.handleSubmit with a preview: every item is committed in
\* the same tick.
HandleSubmit(preview, elapsed) ==
  /\ Len(transactions) + Len(pending) + Len(preview) <= MaxListed
  /\ nowMs + (Len(preview) - 1) * elapsed <= MaxMs
  /\ LET st == ForEachAdd([store |-> txStore, pending |-> pending,
                           overwritten |-> overwritten], preview, 1, elapsed)
     IN /\ txStore' = st.store
        /\ pending' = st.pending
        /\ overwritten' = st.overwritten
  /\ nowMs' = nowMs + (Len(preview) - 1) * elapsed
  /\ UNCHANGED transactions
  /\ UNCHANGED outsideTx

\* The sequence s without its i-th element.
RemoveAt(s, i) == SubSeq(s, 1, i - 1) \o SubSeq(s, i + 1, Len(s))

\* useState<BudgetState | null>(null): the budget before it is loaded
NullBudget == [isNull |-> TRUE]

\* handleAddTransaction after its await: setTransactions(prev => [new, ...prev])
\* and, when there is a budget, the notification check for the updated list.
AddTransactionResumes(i) ==
  /\ i \in DOMAIN pending
  /\ pending[i].op = "add"
  /\ transactions' = <<pending[i].tx>> \o transactions
  /\ pending' = RemoveAt(pending, i)
  /\ notified' = IF budget = NullBudget THEN notified
                 ELSE Some(NotificationCheck(budget, <<pending[i].tx>> \o transactions,
                                             Now, permission))
  /\ UNCHANGED <<txStore, nowMs, overwritten>>
  /\ UNCHANGED outsideAdd

\* deleteDoc: the store without document k
DeleteDoc(docs, k) == [x \in DOMAIN docs \ {k} |-> docs[x]]

\* handleDeleteTransaction(id) up to its await: storage.deleteTransaction
HandleDeleteTransaction(id) ==
  /\ \E i \in DOMAIN transactions : transactions[i].id = id
  /\ Len(pending) < MaxListed
  /\ txStore' = DeleteDoc(txStore, id)
  /\ pending' = Append(pending, [op |-> "delete", id |-> id])
  /\ UNCHANGED <<transactions, nowMs, overwritten>>
  /\ UNCHANGED outsideTx

\* handleDeleteTransaction after its await: prev.filter(t => t.id !== id)
DeleteTransactionResumes(i) ==
  /\ i \in DOMAIN pending
  /\ pending[i].op = "delete"
  /\ transactions' = SelectSeq(transactions, LAMBDA t : t.id # pending[i].id)
  /\ pending' = RemoveAt(pending, i)
  /\ UNCHANGED <<txStore, nowMs, overwritten>>
  /\ UNCHANGED outsideTx

\* Time passes between two events.
TickMs ==
  /\ nowMs < MaxMs
  /\ nowMs' = nowMs + 1
  /\ UNCHANGED <<txStore, transactions, pending, overwritten>>
  /\ UNCHANGED outsideTx

NextTx ==
  \/ \E preview \in Previews, elapsed \in {0, 1} : HandleSubmit(preview, elapsed)
  \/ \E i \in 1..MaxListed : AddTransactionResumes(i)
  \/ \E id \in {NumberToString(ms) : ms \in 0..MaxMs} : HandleDeleteTransaction(id)
  \/ \E i \in 1..MaxListed : DeleteTransactionResumes(i)
  \/ TickMs

(***************************************************************************)
(* Strings                                                                 *)
(* A string is the sequence of its characters, each a one-character        *)
(* string; RupeeSign stands for the currency sign.                         *)
(***************************************************************************)
RupeeSign == "<rupee>"

Uppers ==
  <<"A", "B", "C", "D", "E", "F", "G", "H", "I", "J", "K", "L", "M", "N",
    "O", "P", "Q", "R", "S", "T", "U", "V", "W", "X", "Y", "Z">>

Lowers ==
  <<"a", "b", "c", "d", "e", "f", "g", "h", "i", "j", "k", "l", "m", "n",
    "o", "p", "q", "r", "s", "t", "u", "v", "w", "x", "y", "z">>

DigitChars == <<"0", "1", "2", "3", "4", "5", "6", "7", "8", "9">>


\* The characters of a sequence of characters.
CharsOf(seq) == {seq[i] : i \in DOMAIN seq}

\* The index of character c in seq.
IndexIn(seq, c) == CHOOSE i \in DOMAIN seq : seq[i] = c

\* The i-th character of str, or the empty string outside it.
CharAt(str, i) == IF i \in DOMAIN str THEN str[i] ELSE ""

IsDigit(c) == c \in CharsOf(DigitChars)

\* \s of a regular expression
IsWhitespace(c) == c \in {" ", "\n", "\t"}

\* \w of a regular expression
IsWordChar(c) == IsDigit(c) \/ c = "_" \/ c \in CharsOf(Uppers) \/ c \in CharsOf(Lowers)

\* String.prototype.toLowerCase
ToLowerCase(str) ==
  [i \in DOMAIN str |->
     IF str[i] \in CharsOf(Uppers) THEN Lowers[IndexIn(Uppers, str[i])] ELSE str[i]]

\* String.prototype.toUpperCase
ToUpperCase(str) ==
  [i \in DOMAIN str |->
     IF str[i] \in CharsOf(Lowers) THEN Uppers[IndexIn(Lowers, str[i])] ELSE str[i]]

\* String.prototype.indexOf, counted from 1; 0 when sub does not occur
IndexOf(str, sub) ==
  LET at == {i \in 1..(Len(str) - Len(sub) + 1) : SubSeq(str, i, i + Len(sub) - 1) = sub}
  IN IF at = {} THEN 0 ELSE CHOOSE i \in at : \A j \in at : i <= j

\* String.prototype.includes
Includes(str, sub) == IndexOf(str, sub) # 0

\* String.prototype.replace(sub, ''): the first occurrence of sub removed
RemoveFirst(str, sub) ==
  LET i == IndexOf(str, sub)
  IN IF i = 0 THEN str ELSE SubSeq(str, 1, i - 1) \o SubSeq(str, i + Len(sub), Len(str))

\* replace(/,/g, '')
RemoveCommas(str) == SelectSeq(str, LAMBDA c : c # ",")

\* replace(/\s+/g, '')
RemoveWhitespace(str) == SelectSeq(str, LAMBDA c : ~IsWhitespace(c))

RECURSIVE TrimStart(_)
TrimStart(str) ==
  IF str # <<>> /\ IsWhitespace(Head(str)) THEN TrimStart(Tail(str)) ELSE str

RECURSIVE TrimEnd(_)
TrimEnd(str) ==
  IF str # <<>> /\ IsWhitespace(str[Len(str)])
    THEN TrimEnd(SubSeq(str, 1, Len(str) - 1)) ELSE str

\* String.prototype.trim
Trim(str) == TrimEnd(TrimStart(str))

RECURSIVE SplitCommaNewline(_, _)
\* split(/,|\n/): the pieces of str between commas and newlines; cur is the
\* piece read so far
SplitCommaNewline(str, cur) ==
  IF str = <<>> THEN <<cur>>
  ELSE IF Head(str) \in {",", "\n"} THEN <<cur>> \o SplitCommaNewline(Tail(str), <<>>)
  ELSE SplitCommaNewline(Tail(str), Append(cur, Head(str)))

RECURSIVE DigitsValue(_)
\* The number a run of decimal digits writes.
DigitsValue(digits) ==
  IF digits = <<>> THEN 0
  ELSE 10 * DigitsValue(SubSeq(digits, 1, Len(digits) - 1))
       + (IndexIn(DigitChars, digits[Len(digits)]) - 1)
(***************************************************************************)
(* utils/parser.ts                                                         *)
(* A parsed amount is None (null) or Some of the number in hundredths:     *)
(* the amount pattern admits at most two decimals.                         *)
(***************************************************************************)
RECURSIVE DigitRunEnd(_, _)
\* The position after the longest run of digits of str that starts at j.
DigitRunEnd(str, j) == IF IsDigit(CharAt(str, j)) THEN DigitRunEnd(str, j + 1) ELSE j

RECURSIVE SpaceRunEnd(_, _)
\* The position after the longest run of whitespace of str that starts at j.
SpaceRunEnd(str, j) == IF IsWhitespace(CharAt(str, j)) THEN SpaceRunEnd(str, j + 1) ELSE j

\* \b at position e, the character before e being a digit.
WordBoundary(str, e) == ~IsWordChar(CharAt(str, e))

\* (?:\.\d{1,2})?\b matched at e: the position after the match, 0 for none.
\* The longer alternatives are tried first.
MatchDecimals(str, e) ==
  IF CharAt(str, e) = "." /\ IsDigit(CharAt(str, e + 1)) /\ IsDigit(CharAt(str, e + 2))
       /\ WordBoundary(str, e + 3)
    THEN e + 3
  ELSE IF CharAt(str, e) = "." /\ IsDigit(CharAt(str, e + 1)) /\ WordBoundary(str, e + 2)
    THEN e + 2
  ELSE IF WordBoundary(str, e) THEN e
  ELSE 0

\* The first alternative's match when it has one (not 0), the second's
\* otherwise.
OrElse(first, second) == IF first # 0 THEN first ELSE second

RECURSIVE MatchGroups(_, _)
RECURSIVE MatchGroupsDown(_, _, _)
\* (?:,\d+)*(?:\.\d{1,2})?\b matched at e: one more ",digits" group is tried
\* before none.
MatchGroups(str, e) ==
  OrElse(IF CharAt(str, e) = "," /\ IsDigit(CharAt(str, e + 1))
           THEN MatchGroupsDown(str, e + 2, DigitRunEnd(str, e + 1))
           ELSE 0,
         MatchDecimals(str, e))

\* \d+ ending at hi, hi - 1, ... lo in turn (greedy, then giving digits
\* back), followed by the rest of the pattern.
MatchGroupsDown(str, lo, hi) ==
  IF hi < lo THEN 0
  ELSE OrElse(MatchGroups(str, hi), MatchGroupsDown(str, lo, hi - 1))

\* (\d+(?:,\d+)*(?:\.\d{1,2})?)\b matched at j
MatchNumber(str, j) ==
  IF IsDigit(CharAt(str, j)) THEN MatchGroupsDown(str, j + 1, DigitRunEnd(str, j)) ELSE 0

\* The match of the number from from to before end, None when end is 0.
NumberSpan(from, end) ==
  IF end = 0 THEN None ELSE Some([from |-> from, end |-> end])

\* The number matched at from, where the whitespace before it ends.
MatchNumberFrom(str, from) == NumberSpan(from, MatchNumber(str, from))

\* \s*(number)\b matched at p: the number starts at a digit, so only the
\* longest run of whitespace can precede it.
MatchSpacesNumber(str, p) == MatchNumberFrom(str, SpaceRunEnd(str, p))

RECURSIVE FirstTry(_, _)
\* The first of the alternatives tries[k], tries[k + 1], ... that matched.
FirstTry(tries, k) ==
  IF k > Len(tries) THEN None
  ELSE IF tries[k] # None THEN tries[k]
  ELSE FirstTry(tries, k + 1)

\* The match array of a match m that starts at i: match[0] and match[1].
MatchArray(str, i, m) ==
  IF m = None THEN None
  ELSE Some([whole |-> SubSeq(str, i, m[1].end - 1),
             group |-> SubSeq(str, m[1].from, m[1].end - 1)])

\* str has "rs" at i
HasRs(str, i) == CharAt(str, i) = "r" /\ CharAt(str, i + 1) = "s"

\* amountRegex matched at i: "rs.", "rs", the rupee sign, then no marker.
MatchAmountAt(str, i) ==
  MatchArray(str, i,
    FirstTry(<< IF HasRs(str, i) /\ CharAt(str, i + 2) = "."
                  THEN MatchSpacesNumber(str, i + 3) ELSE None,
                IF HasRs(str, i) THEN MatchSpacesNumber(str, i + 2) ELSE None,
                IF CharAt(str, i) = RupeeSign
                  THEN MatchSpacesNumber(str, i + 1) ELSE None,
                MatchSpacesNumber(str, i) >>, 1))

RECURSIVE MatchAmountFrom(_, _)
\* The leftmost match of amountRegex in str that starts at i or after it.
MatchAmountFrom(str, i) ==
  IF i > Len(str) THEN None
  ELSE FirstTry(<<MatchAmountAt(str, i), MatchAmountFrom(str, i + 1)>>, 1)

\* lowerText.match(amountRegex): the leftmost match, None for null
MatchAmount(str) == MatchAmountFrom(str, 1)

\* parseFloat of digits with at most two decimals, in hundredths
ParseFloatHundredths(str) ==
  LET dot == IndexOf(str, <<".">>)
      whole == IF dot = 0 THEN str ELSE SubSeq(str, 1, dot - 1)
      frac == IF dot = 0 THEN <<>> ELSE SubSeq(str, dot + 1, Len(str))
  IN 100 * DigitsValue(whole)
     + (IF Len(frac) = 1 THEN 10 * DigitsValue(frac) ELSE DigitsValue(frac))

\* The keywords table of parseExpenseInput, in the order of Object.entries.
Keywords ==
  << [cat |-> "Groceries", words |->
      << <<"g", "r", "o", "c", "e", "r", "i", "e", "s">>,
         <<"g", "r", "o", "c", "e", "r", "y">>,
         <<"v", "e", "g", "e", "t", "a", "b", "l", "e", "s">>,
         <<"f", "r", "u", "i", "t", "s">>, <<"m", "i", "l", "k">>,
         <<"b", "r", "e", "a", "d">>, <<"m", "a", "r", "k", "e", "t">>,
         <<"s", "u", "p", "e", "r", "m", "a", "r", "k", "e", "t">>,
         <<"f", "o", "o", "d">>, <<"r", "a", "t", "i", "o", "n">> >>],
    [cat |-> "Outings", words |->
      << <<"o", "u", "t", "i", "n", "g", "s">>,
         <<"o", "u", "t", "i", "n", "g">>,
         <<"r", "e", "s", "t", "a", "u", "r", "a", "n", "t">>,
         <<"c", "a", "f", "e">>, <<"c", "o", "f", "f", "e", "e">>,
         <<"t", "e", "a">>, <<"d", "i", "n", "n", "e", "r">>,
         <<"l", "u", "n", "c", "h">>,
         <<"b", "r", "e", "a", "k", "f", "a", "s", "t">>,
         <<"m", "o", "v", "i", "e">>, <<"c", "i", "n", "e", "m", "a">>,
         <<"c", "o", "n", "c", "e", "r", "t">>, <<"u", "b", "e", "r">>,
         <<"o", "l", "a">>, <<"c", "a", "b">>, <<"t", "a", "x", "i">>,
         <<"h", "o", "t", "e", "l">>, <<"t", "r", "i", "p">>,
         <<"p", "a", "r", "t", "y">>, <<"f", "u", "n">> >>],
    [cat |-> "BodyCare", words |->
      << <<"b", "o", "d", "y", " ", "c", "a", "r", "e">>,
         <<"b", "o", "d", "y", "c", "a", "r", "e">>,
         <<"p", "e", "r", "s", "o", "n", "a", "l", " ", "c", "a", "r", "e">>,
         <<"s", "a", "l", "o", "n">>, <<"s", "p", "a">>,
         <<"h", "a", "i", "r", "c", "u", "t">>, <<"g", "y", "m">>,
         <<"m", "e", "d", "i", "c", "i", "n", "e">>,
         <<"p", "h", "a", "r", "m", "a", "c", "y">>,
         <<"d", "o", "c", "t", "o", "r">>,
         <<"h", "o", "s", "p", "i", "t", "a", "l">>,
         <<"c", "r", "e", "a", "m">>, <<"s", "o", "a", "p">>,
         <<"s", "h", "a", "m", "p", "o", "o">>,
         <<"c", "o", "n", "d", "i", "t", "i", "o", "n", "e", "r">>,
         <<"l", "o", "t", "i", "o", "n">>,
         <<"f", "a", "c", "e", " ", "w", "a", "s", "h">>,
         <<"s", "k", "i", "n", "c", "a", "r", "e">>,
         <<"m", "a", "k", "e", "u", "p">>,
         <<"c", "o", "s", "m", "e", "t", "i", "c", "s">>,
         <<"m", "e", "d", "i", "c", "a", "l">>,
         <<"h", "e", "a", "l", "t", "h">>,
         <<"t", "o", "o", "t", "h", "b", "r", "u", "s", "h">>,
         <<"p", "a", "s", "t", "e">> >>],
    [cat |-> "Orders", words |->
      << <<"o", "r", "d", "e", "r", "s">>, <<"o", "r", "d", "e", "r">>,
         <<"a", "m", "a", "z", "o", "n">>,
         <<"f", "l", "i", "p", "k", "a", "r", "t">>,
         <<"m", "e", "e", "s", "h", "o">>, <<"m", "y", "n", "t", "r", "a">>,
         <<"z", "o", "m", "a", "t", "o">>, <<"s", "w", "i", "g", "g", "y">>,
         <<"b", "l", "i", "n", "k", "i", "t">>, <<"z", "e", "p", "t", "o">>,
         <<"o", "n", "l", "i", "n", "e">>,
         <<"d", "e", "l", "i", "v", "e", "r", "y">> >>],
    [cat |-> "Petrol", words |->
      << <<"p", "e", "t", "r", "o", "l">>, <<"d", "i", "e", "s", "e", "l">>,
         <<"f", "u", "e", "l">>, <<"g", "a", "s">>,
         <<"s", "h", "e", "l", "l">>, <<"h", "p">>,
         <<"s", "t", "a", "t", "i", "o", "n">>, <<"p", "u", "m", "p">> >>],
    [cat |-> "Miscellaneous", words |->
      << <<"m", "i", "s", "c", "e", "l", "l", "a", "n", "e", "o", "u", "s">>,
         <<"m", "i", "s", "c">>, <<"g", "i", "f", "t">>,
         <<"d", "o", "n", "a", "t", "i", "o", "n">>,
         <<"o", "t", "h", "e", "r">>, <<"r", "a", "n", "d", "o", "m">> >>],
    [cat |-> "Bills", words |->
      << <<"b", "i", "l", "l", "s">>, <<"b", "i", "l", "l">>,
         <<"e", "l", "e", "c", "t", "r", "i", "c", "i", "t", "y">>,
         <<"r", "e", "n", "t">>, <<"w", "i", "f", "i">>,
         <<"i", "n", "t", "e", "r", "n", "e", "t">>,
         <<"r", "e", "c", "h", "a", "r", "g", "e">>,
         <<"s", "u", "b", "s", "c", "r", "i", "p", "t", "i", "o", "n">>,
         <<"m", "o", "b", "i", "l", "e">>, <<"w", "a", "t", "e", "r">>,
         <<"f", "e", "e">>, <<"u", "t", "i", "l", "i", "t", "y">> >>],
    [cat |-> "Savings", words |->
      << <<"s", "a", "v", "e">>, <<"s", "a", "v", "i", "n", "g", "s">>,
         <<"i", "n", "v", "e", "s", "t">>,
         <<"m", "u", "t", "u", "a", "l", " ", "f", "u", "n", "d">>,
         <<"s", "i", "p">>, <<"d", "e", "p", "o", "s", "i", "t">> >>],
    [cat |-> "Other", words |-> <<>>] >>
\* The characters of a category name, for template strings.
CategoryText(cat) ==
  IF cat = "Groceries" THEN <<"G", "r", "o", "c", "e", "r", "i", "e", "s">>
  ELSE IF cat = "Outings" THEN <<"O", "u", "t", "i", "n", "g", "s">>
  ELSE IF cat = "BodyCare" THEN <<"B", "o", "d", "y", "C", "a", "r", "e">>
  ELSE IF cat = "Orders" THEN <<"O", "r", "d", "e", "r", "s">>
  ELSE IF cat = "Miscellaneous" THEN <<"M", "i", "s", "c", "e", "l", "l", "a", "n", "e", "o", "u", "s">>
  ELSE IF cat = "Petrol" THEN <<"P", "e", "t", "r", "o", "l">>
  ELSE IF cat = "Bills" THEN <<"B", "i", "l", "l", "s">>
  ELSE IF cat = "Savings" THEN <<"S", "a", "v", "i", "n", "g", "s">>
  ELSE <<"O", "t", "h", "e", "r">>

YesterdayWord == <<"y", "e", "s", "t", "e", "r", "d", "a", "y">>

\* " expense"
ExpenseSuffix == <<" ", "e", "x", "p", "e", "n", "s", "e">>

ExpenseWord == <<"E", "x", "p", "e", "n", "s", "e">>

\* Mutant: the last category of the table with a keyword in the text wins.
LastKeywordCategory(lowerText) ==
  LET hits == {k \in DOMAIN Keywords :
                 \E w \in DOMAIN Keywords[k].words :
                   Includes(lowerText, Keywords[k].words[w])}
  IN IF hits = {} THEN NullCategory
     ELSE Keywords[CHOOSE k \in hits : \A l \in hits : l <= k].cat

\* The loop over Object.entries(keywords) with its break.
KeywordCategory(lowerText) ==
  LET hits == {k \in DOMAIN Keywords :
                 \E w \in DOMAIN Keywords[k].words :
                   Includes(lowerText, Keywords[k].words[w])}
  IN IF hits = {} THEN NullCategory
     ELSE Keywords[CHOOSE k \in hits : \A l \in hits : k <= l].cat

\* amount: parseFloat of the matched number without its commas, null
\* (None) without a match
AmountOf(amountMatch) ==
  IF amountMatch # None
    THEN Some(ParseFloatHundredths(RemoveCommas(amountMatch[1].group)))
    ELSE None

\* category: the keyword table's category, Miscellaneous when it has none
\* and the amount is neither null nor 0
CategoryOf(found, amount) ==
  IF found = NullCategory /\ amount # None /\ amount # Some(0)
    THEN "Miscellaneous" ELSE found

\* date: today at noon, the day before when the text says yesterday
DateOf(lowerText, today) ==
  [day |-> IF Includes(lowerText, YesterdayWord) THEN today - 1 ELSE today,
   hour |-> 12]

\* text.replace(amountMatch[0], '').trim(), the text itself without a match
Stripped(text, amountMatch) ==
  IF amountMatch # None THEN Trim(RemoveFirst(text, amountMatch[1].whole)) ELSE text

\* description.charAt(0).toUpperCase() + description.slice(1)
Capitalised(description) ==
  ToUpperCase(SubSeq(description, 1, 1)) \o SubSeq(description, 2, Len(description))

\* description: the stripped text, a default when nothing is left of it
DescriptionOf(stripped, category) ==
  Capitalised(IF Len(stripped) = 0
                THEN (IF category # NullCategory
                        THEN CategoryText(category) \o ExpenseSuffix
                        ELSE ExpenseWord)
                ELSE stripped)

\* parseExpenseInput from the description on
WithCategory(text, today, lowerText, amountMatch, amount, category) ==
  [amount |-> amount,
   category |-> category,
   description |-> DescriptionOf(Stripped(text, amountMatch), category),
   date |-> DateOf(lowerText, today)]

\* parseExpenseInput from the keyword loop on
WithAmount(text, today, lowerText, amountMatch, amount) ==
  WithCategory(text, today, lowerText, amountMatch, amount,
               CategoryOf(KeywordCategory(lowerText), amount))

\* parseExpenseInput from the amount on
WithAmountMatch(text, today, lowerText, amountMatch) ==
  WithAmount(text, today, lowerText, amountMatch, AmountOf(amountMatch))

\* parseExpenseInput from the match of amountRegex on
WithLowerText(text, today, lowerText) ==
  WithAmountMatch(text, today, lowerText, MatchAmount(lowerText))

\* parseExpenseInput(text), called on day today
ParseExpenseInput(text, today) == WithLowerText(text, today, ToLowerCase(text))

\* parseMultipleExpenses from its fallback on: single is the parse of the
\* whole text, results the chunks that have an amount.
SingleOrResults(results, single) ==
  IF Len(results) = 0
    THEN (IF single.amount # None /\ single.amount # Some(0) THEN <<single>> ELSE <<>>)
    ELSE results

\* The chunks of pieces that are not empty once trimmed.
TrimmedChunks(pieces) ==
  SelectSeq([i \in DOMAIN pieces |-> Trim(pieces[i])], LAMBDA c : Len(c) > 0)

\* The parses of the chunks that found an amount.
ChunkResults(chunks, today) ==
  SelectSeq([i \in DOMAIN chunks |-> ParseExpenseInput(chunks[i], today)],
            LAMBDA item : item.amount # None)

\* parseMultipleExpenses(text), called on day today
ParseMultipleExpenses(text, today) ==
  SingleOrResults(ChunkResults(TrimmedChunks(SplitCommaNewline(text, <<>>)), today),
                  ParseExpenseInput(text, today))


\* The texts of the examples.
ZomatoText ==
  <<"z", "o", "m", "a", "t", "o", " ", "o", "r", "d", "e", "r", " ", "f",
    "o", "r", " ", "d", "i", "n", "n", "e", "r", ",", " ", "3", "0", "0">>

SpentText ==
  <<"S", "p", "e", "n", "t", " ", "1", ",", "2", "0", "0", ".", "5", "0",
    " ", "o", "n", " ", "g", "r", "o", "c", "e", "r", "i", "e", "s">>

DinnerText ==
  <<"D", "i", "n", "n", "e", "r", " ", "a", "t", " ", "m", "o", "m", "'",
    "s", ",", " ", "r", "o", "t", "i", " ", "p", "l", "a", "c", "e", " ",
    "-", " ", "2", "5", "0">>

\* Words and phrases of the sampled texts.
SampleWords ==
  { <<"C", "o", "f", "f", "e", "e">>,
    <<"m", "i", "l", "k">>,
    <<"z", "o", "m", "a", "t", "o", " ", "d", "i", "n", "n", "e", "r">>,
    <<"Y", "e", "s", "t", "e", "r", "d", "a", "y", " ", "r", "e", "n", "t">>,
    <<"x", "y", "z">>,
    <<>> }

\* The ways an amount is written in the sampled texts.
SampleAmounts ==
  { <<"5", "0">>,
    <<"r", "s", " ", "1", ",", "0", "0", "0">>,
    <<RupeeSign, "2", "0", ".", "5">>,
    <<"R", "s", ".", "7">>,
    <<"1", "2", ".", "3", "4", "5">>,
    <<"5", "x">>,
    <<"0">>,
    <<>> }

SampleSeparators == { <<" ">>, <<",", " ">>, <<"\n">> }

\* The texts handed to the parser: the examples, and a phrase and an amount
\* in either order around a separator.
ParserTexts ==
  {ZomatoText, SpentText, DinnerText}
    \cup {w \o sep \o a : w \in SampleWords, sep \in SampleSeparators, a \in SampleAmounts}
    \cup {a \o sep \o w : w \in SampleWords, sep \in SampleSeparators, a \in SampleAmounts}

\* parseExpenseInput(rawText)
CallParseExpenseInput ==
  /\ parsedOne = None
  /\ parsedOne' = Some(ParseExpenseInput(rawText, clock))
  /\ UNCHANGED <<rawText, parsedMany>>
  /\ UNCHANGED outsideParser

\* parseMultipleExpenses(rawText)
CallParseMultipleExpenses ==
  /\ parsedMany = None
  /\ parsedMany' = Some(ParseMultipleExpenses(rawText, clock))
  /\ UNCHANGED <<rawText, parsedOne>>
  /\ UNCHANGED outsideParser

ParserIdle ==
  /\ rawText = <<>>
  /\ parsedOne = None
  /\ parsedMany = None

NextParser == CallParseExpenseInput \/ CallParseMultipleExpenses

(***************************************************************************)
(* JavaScript values                                                       *)
(* The fields of a ParsedExpense that the code does not check are values   *)
(* of any type; numbers that are amounts are counted in hundredths.        *)
(***************************************************************************)
JsUndefined == [t |-> "undefined"]
JsNull == [t |-> "null"]
JsNumber(n) == [t |-> "number", v |-> n]
\* A string value, v being its characters.
JsString(chars) == [t |-> "string", v |-> chars]
\* A function or object inherited from Object.prototype, v being its key.
JsObject(key) == [t |-> "object", v |-> key]

\* ToBoolean(x) is false: undefined, null, 0 and the empty string.
Falsy(x) ==
  \/ x.t \in {"undefined", "null"}
  \/ x.t = "number" /\ x.v = 0
  \/ x.t = "string" /\ x.v = <<>>

(***************************************************************************)
(* utils/groq.ts: the adapter to the classifier                            *)
(***************************************************************************)
\* CATEGORY_MAP's own properties: <<key, category>>.
CategoryMapEntries ==
  { <<<<"G", "r", "o", "c", "e", "r", "i", "e", "s">>, "Groceries">>,
    <<<<"G", "r", "o", "c", "e", "r", "y">>, "Groceries">>,
    <<<<"F", "o", "o", "d">>, "Groceries">>,
    <<<<"O", "u", "t", "i", "n", "g", "s">>, "Outings">>,
    <<<<"O", "u", "t", "i", "n", "g">>, "Outings">>,
    <<<<"R", "e", "s", "t", "a", "u", "r", "a", "n", "t">>, "Outings">>,
    <<<<"E", "n", "t", "e", "r", "t", "a", "i", "n", "m", "e", "n", "t">>, "Outings">>,
    <<<<"B", "o", "d", "y", "C", "a", "r", "e">>, "BodyCare">>,
    <<<<"B", "o", "d", "y", " ", "C", "a", "r", "e">>, "BodyCare">>,
    <<<<"P", "e", "r", "s", "o", "n", "a", "l", " ", "C", "a", "r", "e">>, "BodyCare">>,
    <<<<"H", "e", "a", "l", "t", "h">>, "BodyCare">>,
    <<<<"O", "r", "d", "e", "r", "s">>, "Orders">>,
    <<<<"O", "r", "d", "e", "r">>, "Orders">>,
    <<<<"S", "h", "o", "p", "p", "i", "n", "g">>, "Orders">>,
    <<<<"P", "e", "t", "r", "o", "l">>, "Petrol">>,
    <<<<"F", "u", "e", "l">>, "Petrol">>,
    <<<<"T", "r", "a", "n", "s", "p", "o", "r", "t">>, "Petrol">>,
    <<<<"M", "i", "s", "c", "e", "l", "l", "a", "n", "e", "o", "u", "s">>, "Miscellaneous">>,
    <<<<"M", "i", "s", "c">>, "Miscellaneous">>,
    <<<<"B", "i", "l", "l", "s">>, "Bills">>,
    <<<<"S", "a", "v", "i", "n", "g", "s">>, "Savings">>,
    <<<<"O", "t", "h", "e", "r">>, "Other">> }

\* The properties every object literal inherits from Object.prototype.
ObjectPrototypeKeys ==
  { <<"c", "o", "n", "s", "t", "r", "u", "c", "t", "o", "r">>,
    <<"t", "o", "S", "t", "r", "i", "n", "g">>,
    <<"v", "a", "l", "u", "e", "O", "f">>,
    <<"h", "a", "s", "O", "w", "n", "P", "r", "o", "p", "e", "r", "t", "y">>,
    <<"i", "s", "P", "r", "o", "t", "o", "t", "y", "p", "e", "O", "f">>,
    <<"p", "r", "o", "p", "e", "r", "t", "y", "I", "s", "E", "n", "u", "m", "e", "r", "a", "b", "l", "e">>,
    <<"t", "o", "L", "o", "c", "a", "l", "e", "S", "t", "r", "i", "n", "g">>,
    <<"_", "_", "p", "r", "o", "t", "o", "_", "_">>,
    <<"_", "_", "d", "e", "f", "i", "n", "e", "G", "e", "t", "t", "e", "r", "_", "_">>,
    <<"_", "_", "d", "e", "f", "i", "n", "e", "S", "e", "t", "t", "e", "r", "_", "_">>,
    <<"_", "_", "l", "o", "o", "k", "u", "p", "G", "e", "t", "t", "e", "r", "_", "_">>,
    <<"_", "_", "l", "o", "o", "k", "u", "p", "S", "e", "t", "t", "e", "r", "_", "_">> }

\* CATEGORY_MAP[key]
CategoryMapGet(key) ==
  IF \E e \in CategoryMapEntries : e[1] = key
    THEN JsString(CategoryText((CHOOSE e \in CategoryMapEntries : e[1] = key)[2]))
  ELSE IF key \in ObjectPrototypeKeys THEN JsObject(key)
  ELSE JsUndefined

MiscellaneousText == CategoryText("Miscellaneous")

\* An element of result.expenses is null, or an object whose fields are
\* absent (undefined) or hold a value.
NullItem == [isNull |-> TRUE]

\* item.category || 'Miscellaneous'
RawCat(item) ==
  IF Falsy(item.category) THEN JsString(MiscellaneousText) ELSE item.category

\* The callback of expenses.map throws a TypeError for this item: the item
\* is null, or its label is a number other than 0, which no key of
\* CATEGORY_MAP resolves and which has no replace method.
ItemThrows(item) == item.isNull \/ RawCat(item).t = "number"

\* normalizedCat, for an item whose callback does not throw
NormalizedCat(item) ==
  LET rawCat == RawCat(item)
      first == CategoryMapGet(rawCat.v)
      second == CategoryMapGet(RemoveWhitespace(rawCat.v))
  IN IF ~Falsy(first) THEN first
     ELSE IF ~Falsy(second) THEN second
     ELSE JsString(MiscellaneousText)

\* The callback of expenses.map
NormalizeItem(item, input, today) ==
  [amount |-> item.amount,
   category |-> NormalizedCat(item),
   description |-> IF Falsy(item.description) THEN input ELSE item.description.v,
   date |-> IF item.date.t = "undefined"
              THEN [day |-> today, hour |-> 12]
              ELSE [day |-> item.date.v, hour |-> 12]]

\* The try block of parseExpenseWithAI threw: the request was rejected, the
\* reply had no content, the content was not JSON, the JSON value was null,
\* or the map callback threw.
TryThrows(reply) ==
  \/ reply.kind \in {"rejected", "noContent", "notJson"}
  \/ reply.kind = "json" /\ reply.value.t = "null"
  \/ /\ reply.kind = "json" /\ reply.value.t = "object"
     /\ reply.value.expenses.t = "array"
     /\ \E i \in DOMAIN reply.value.expenses.items :
          ItemThrows(reply.value.expenses.items[i])

\* filter(e => e.amount !== null)
FilterAmounts(items) == SelectSeq(items, LAMBDA e : e.amount # JsNull)

\* parseExpenseWithAI(input), the service answering with reply
ParseExpenseWithAI(input, reply, today) ==
  IF Len(input) = 0 \/ Len(Trim(input)) < 3 THEN <<>>
  ELSE IF TryThrows(reply) THEN <<>>
  ELSE LET expenses == IF reply.value.expenses.t = "array"
                         THEN reply.value.expenses.items ELSE <<>>
       IN FilterAmounts([i \in DOMAIN expenses |-> NormalizeItem(expenses[i], input, today)])

\* The amounts an element of the service's reply can carry: none, null,
\* a negative number, zero, a positive number, a string.
ReplyAmounts ==
  {JsUndefined, JsNull, JsNumber(-5000), JsNumber(0), JsNumber(5000),
   JsString(<<"5", "0">>)}

\* The category labels: none, a synonym, a synonym written with a space, a
\* label the table does not hold, a property name of Object.prototype, a number.
ReplyLabels ==
  {JsUndefined,
   JsString(<<"F", "o", "o", "d">>),
   JsString(<<"B", "o", "d", "y", " ", "C", "a", "r", "e">>),
   JsString(<<"G", "a", "m", "e", "s">>),
   JsString(<<"c", "o", "n", "s", "t", "r", "u", "c", "t", "o", "r">>),
   JsNumber(5)}

ReplyItems ==
  {NullItem}
    \cup [isNull : {FALSE}, amount : ReplyAmounts, category : ReplyLabels,
          description : {JsUndefined}, date : {JsUndefined}]
    \cup [isNull : {FALSE}, amount : {JsNumber(1250)},
          category : {JsString(<<"B", "i", "l", "l", "s">>)},
          description : {JsString(<<"w", "i", "f", "i">>)},
          date : {[t |-> "date", v |-> -1]}]

\* What the service can answer.
Replies ==
  {[kind |-> "rejected"], [kind |-> "noContent"], [kind |-> "notJson"],
   [kind |-> "json", value |-> JsNull],
   [kind |-> "json", value |-> [t |-> "object", expenses |-> JsUndefined]],
   [kind |-> "json", value |-> [t |-> "object", expenses |-> JsString(<<"n", "o", "n", "e">>)]]}
    \cup {[kind |-> "json",
           value |-> [t |-> "object", expenses |-> [t |-> "array", items |-> items]]] :
            items \in UNION {[1..n -> ReplyItems] : n \in 0..MaxItems}}

\* The reply is a failure of the call: no answer, no content, no JSON, or a
\* JSON value without an expenses array.
ReplyFailed(r) ==
  r.kind # "json" \/ r.value.t = "null" \/ r.value.expenses.t # "array"

\* The replies that are failures of the call.
FailedReplies == {r \in Replies : ReplyFailed(r)}

MilkText == <<"m", "i", "l", "k", " ", "5", "0">>

\* The inputs: too short for a request, and an expense.
ClassifierInputs == {<<" ", "a", " ">>, MilkText}

\* parseExpenseWithAI(aiInput)
CallParseExpenseWithAI ==
  /\ aiResult = None
  /\ aiResult' = Some(ParseExpenseWithAI(aiInput, aiReply, clock))
  /\ UNCHANGED <<aiInput, aiReply>>
  /\ UNCHANGED outsideClassifier

ClassifierIdle ==
  /\ aiInput = <<>>
  /\ aiReply = [kind |-> "rejected"]
  /\ aiResult = None

NextClassifier == CallParseExpenseWithAI

(***************************************************************************)
(* components/TransactionInput.tsx: the preview and the debounced upgrade  *)
(***************************************************************************)
\* The debounce delay of 800 ms, in ticks of the component's clock.
DebounceTicks == 2

\* A heuristic result as the ParsedExpense the preview holds.
ToParsedExpense(item) ==
  [amount |-> IF item.amount = None THEN JsNull ELSE JsNumber(item.amount[1]),
   category |-> IF item.category = NullCategory
                  THEN JsNull ELSE JsString(CategoryText(item.category)),
   description |-> item.description,
   date |-> item.date]

\* parseMultipleExpenses(v) as the component receives it
SyncParsed(v) ==
  LET parsed == ParseMultipleExpenses(v, clock)
  IN [i \in DOMAIN parsed |-> ToParsedExpense(parsed[i])]

\* What the effect sets the preview to when the input is v.
EffectPreview(v) ==
  IF Len(Trim(v)) > 3
    THEN (IF Len(SyncParsed(v)) > 0 THEN Some(SyncParsed(v)) ELSE None)
    ELSE None

\* clearTimeout(handle); clearTimeout(undefined) clears nothing.
ClearTimeout(pendingTimers, handle) ==
  IF handle = None THEN pendingTimers
  ELSE {t \in pendingTimers : t.id # handle[1]}

\* setTimeout(callback, 800), the callback holding the input v of its render.
SetTimeout(pendingTimers, v) ==
  LET id == CHOOSE i \in 1..MaxTimers :
              /\ i \notin {t.id : t \in pendingTimers}
              /\ \A j \in 1..MaxTimers :
                   j \notin {t.id : t \in pendingTimers} => i <= j
  IN [id |-> id, text |-> v, left |-> DebounceTicks]

\* The effect of [input] for the value v without the cleanup of the run
\* before it: the timer of that run stays pending.
RunEffectNoCleanup(v) ==
  /\ previewItems' = EffectPreview(v)
  /\ IF Len(Trim(v)) > 3
       THEN /\ Cardinality(timers) < MaxTimers
            /\ timers' = timers \cup {SetTimeout(timers, v)}
            /\ debounceTimer' = Some(SetTimeout(timers, v).id)
       ELSE /\ timers' = timers
            /\ debounceTimer' = None

\* The input became v: the cleanup of the effect's last run, then the effect.
RunEffect(v) ==
  /\ previewItems' = EffectPreview(v)
  /\ LET cleared == ClearTimeout(timers, debounceTimer)
     IN IF Len(Trim(v)) > 3
          THEN /\ Cardinality(cleared) < MaxTimers
               /\ timers' = cleared \cup {SetTimeout(cleared, v)}
               /\ debounceTimer' = Some(SetTimeout(cleared, v).id)
          ELSE /\ timers' = cleared
               /\ debounceTimer' = None

\* onChange: setInput(v) with a value other than the current one, and the
\* render and effect that follow.
OnChange(v) ==
  /\ v # inputValue
  /\ inputValue' = v
  /\ RunEffect(v)
  /\ quiet' = 0
  /\ lastCall' = None
  /\ committed' = FALSE
  /\ UNCHANGED <<inFlight, written>>
  /\ UNCHANGED outsideInput

\* A tick of time passes; a timer that is due may still be waiting to run.
TickInput ==
  /\ quiet < DebounceTicks \/ \E t \in timers : t.left > 0
  /\ quiet' = IF quiet < DebounceTicks THEN quiet + 1 ELSE quiet
  /\ timers' = {[t EXCEPT !.left = IF t.left > 0 THEN t.left - 1 ELSE 0] : t \in timers}
  /\ UNCHANGED <<inputValue, previewItems, debounceTimer, inFlight, lastCall,
                 written, committed>>
  /\ UNCHANGED outsideInput

\* The callback of a due timer runs up to its await: parseExpenseWithAI(text)
\* returns [] at once for a short text and sends the request otherwise.  The
\* request records, as history, the input and the quiet time at the call.
TimerFires(id) ==
  /\ \E t \in timers :
       /\ t.id = id
       /\ t.left = 0
       /\ timers' = timers \ {t}
       /\ IF Len(t.text) = 0 \/ Len(Trim(t.text)) < 3
            THEN inFlight' = inFlight
            ELSE /\ Len(inFlight) < MaxInFlight
                 /\ inFlight' = Append(inFlight,
                                       [text |-> t.text, current |-> inputValue,
                                        quiet |-> quiet])
  /\ UNCHANGED <<inputValue, previewItems, debounceTimer, quiet, lastCall,
                 written, committed>>
  /\ UNCHANGED outsideInput

\* The timer's callback after its await, setting the preview from every
\* result, an empty one included.  lastCall records, as history, the request
\* answered, whether the call failed, its result, whether setPreview was
\* called with it, and the preview before.
ResponseArrivesUnguarded(i, reply) ==
  /\ i \in DOMAIN inFlight
  /\ LET aiParsed == ParseExpenseWithAI(inFlight[i].text, reply, clock)
     IN /\ previewItems' = Some(aiParsed)
        /\ lastCall' = Some([request |-> inFlight[i].text,
                             failed |-> ReplyFailed(reply),
                             result |-> aiParsed,
                             applied |-> TRUE,
                             before |-> previewItems])
  /\ inFlight' = RemoveAt(inFlight, i)
  /\ UNCHANGED <<inputValue, timers, debounceTimer, quiet, written, committed>>
  /\ UNCHANGED outsideInput

\* The timer's callback after its await: the service has answered request i
\* with reply, and a non-empty result replaces the preview.
ResponseArrives(i, reply) ==
  /\ i \in DOMAIN inFlight
  /\ LET aiParsed == ParseExpenseWithAI(inFlight[i].text, reply, clock)
     IN /\ previewItems' = IF Len(aiParsed) > 0 THEN Some(aiParsed) ELSE previewItems
        /\ lastCall' = Some([request |-> inFlight[i].text,
                             failed |-> ReplyFailed(reply),
                             result |-> aiParsed,
                             applied |-> Len(aiParsed) > 0,
                             before |-> previewItems])
  /\ inFlight' = RemoveAt(inFlight, i)
  /\ UNCHANGED <<inputValue, timers, debounceTimer, quiet, written, committed>>
  /\ UNCHANGED outsideInput

\* handleAddTransaction(parsed) for the signed-in user: the documents of the
\* store after the guard, the new Transaction and storage.addTransaction.
HandleAddTransaction(docs, parsed) ==
  IF Falsy(parsed.amount) \/ Falsy(parsed.category) THEN docs
  ELSE Append(docs, [amount |-> parsed.amount,
                     category |-> parsed.category,
                     description |-> parsed.description,
                     date |-> parsed.date])

RECURSIVE ForEachOnAddTransaction(_, _, _)
\* items.forEach(item => onAddTransaction(item)) from the k-th item on
ForEachOnAddTransaction(docs, items, k) ==
  IF k > Len(items) THEN docs
  ELSE ForEachOnAddTransaction(HandleAddTransaction(docs, items[k]), items, k + 1)

\* handleKeyDown with Enter, or a click on the button: handleSubmit commits
\* the preview, or the heuristic parse of the input when there is none, and
\* clears the input, after which the effect runs for the empty input.
HandleKeyDown ==
  LET syncParsed == SyncParsed(inputValue)
      items == IF previewItems # None /\ Len(previewItems[1]) > 0
                 THEN previewItems[1] ELSE syncParsed
  IN /\ Len(items) > 0
     /\ Len(written) + Len(items) <= MaxWritten
     /\ written' = ForEachOnAddTransaction(written, items, 1)
     /\ inputValue' = <<>>
     /\ IF inputValue # <<>>
          THEN RunEffect(<<>>)
          ELSE /\ previewItems' = None
               /\ UNCHANGED <<timers, debounceTimer>>
     /\ quiet' = IF inputValue # <<>> THEN 0 ELSE quiet
     /\ lastCall' = None
     /\ committed' = TRUE
     /\ UNCHANGED inFlight
     /\ UNCHANGED outsideInput

ShortText == <<"a", " ", "1">>

TeaText == <<"t", "e", "a", " ", "2", "0">>

\* What the user types: nothing, a text too short for a preview and two
\* expenses.
InputTexts == {<<>>, ShortText, MilkText, TeaText}

\* What the service answers to the requests of the component.
InputReplies ==
  {[kind |-> "rejected"], [kind |-> "noContent"], [kind |-> "notJson"],
   [kind |-> "json", value |-> [t |-> "object", expenses |-> JsUndefined]]}
    \cup {[kind |-> "json",
           value |-> [t |-> "object", expenses |-> [t |-> "array", items |-> items]]] :
            items \in {<<>>}
              \cup {<<[isNull |-> FALSE, amount |-> a,
                       category |-> JsString(<<"F", "o", "o", "d">>),
                       description |-> JsUndefined, date |-> JsUndefined]>> :
                      a \in {JsNumber(-5000), JsNumber(5000)}}}

InputIdle ==
  /\ inputValue = <<>>
  /\ previewItems = None
  /\ timers = {}
  /\ debounceTimer = None
  /\ inFlight = <<>>
  /\ quiet = DebounceTicks
  /\ lastCall = None
  /\ written = <<>>
  /\ committed = FALSE

NextInput ==
  \/ \E v \in InputTexts : OnChange(v)
  \/ TickInput
  \/ \E id \in 1..MaxTimers : TimerFires(id)
  \/ \E i \in 1..MaxInFlight, reply \in InputReplies : ResponseArrives(i, reply)
  \/ HandleKeyDown

\* Every part of the text entry at rest.
EntryIdle == ParserIdle /\ ClassifierIdle /\ InputIdle

(***************************************************************************)
(* App.tsx: the start of a session.  The effect on mount runs initData,    *)
(* which awaits timeService.init before it loads the budget and the        *)
(* transactions; initData catches nothing, the storage service catches     *)
(* the failures of its own reads and writes.  The browser holds no legacy  *)
(* data.                                                                   *)
(***************************************************************************)
\* A budget the user has set up and the persist effect has saved.
SavedBudget ==
  [monthlyIncome |-> MaxMoney,
   allocations |-> [weeklyLimit |-> 1, monthlyLimit |-> 0, savingsTarget |-> 1,
                    weeklyCategoryLimits |-> DefaultCategoryLimits],
   isSet |-> TRUE]

\* What storageService.loadBudget returns: the stored budget, the default
\* budget when there is none or when the read fails.
LoadBudgetResult(ok) ==
  IF ok /\ budgetDoc # None THEN budgetDoc[1] ELSE DefaultBudget

\* What storageService.loadTransactions returns: the stored transactions,
\* the newest (the highest id) first, none when the read fails.
LoadTransactionsResult(ok) ==
  IF ok
    THEN [i \in 1..Cardinality(DOMAIN txStore) |->
            txStore[Cardinality(DOMAIN txStore) + 1 - i]]
    ELSE <<>>

\* The effect on mount, lines 26-30: initData calls timeService.init, whose
\* read of the meta document completes.
InitData(ok) ==
  /\ bootPc = "mounted"
  /\ GetMeta(ok)
  /\ bootPc' = "init"
  /\ UNCHANGED <<loadingData, loadedBudget, budgetDoc, budget, transactions>>
  /\ UNCHANGED outsideBoot

\* initData, line 30: timeService.init rejected, and so does initData, which
\* runs no further.
InitDataRejected ==
  /\ bootPc = "init"
  /\ tsPc = "idle"
  /\ thisRun[1].outcome = "failed"
  /\ bootPc' = "rejected"
  /\ UNCHANGED <<loadingData, loadedBudget, budgetDoc, budget, transactions>>
  /\ UNCHANGED <<storeVars, archiveVars>>
  /\ UNCHANGED outsideBoot

\* initData, line 32: timeService.init has returned and loadBudget completes.
LoadBudget(ok) ==
  /\ bootPc = "init"
  /\ tsPc = "idle"
  /\ thisRun[1].outcome = "ok"
  /\ loadedBudget' = Some(LoadBudgetResult(ok))
  /\ bootPc' = "haveBudget"
  /\ UNCHANGED <<loadingData, budgetDoc, budget, transactions>>
  /\ UNCHANGED <<storeVars, archiveVars>>
  /\ UNCHANGED outsideBoot

\* initData, lines 33-46: loadTransactions completes, the budget and the
\* transactions are set and loading ends; the persist effect of lines 53-57
\* then saves the budget, a write that may fail.
LoadTransactions(ok, saved) ==
  /\ bootPc = "haveBudget"
  /\ budget' = loadedBudget[1]
  /\ transactions' = LoadTransactionsResult(ok)
  /\ loadingData' = FALSE
  /\ budgetDoc' = IF saved THEN loadedBudget ELSE budgetDoc
  /\ bootPc' = "done"
  /\ UNCHANGED loadedBudget
  /\ UNCHANGED <<storeVars, archiveVars>>
  /\ UNCHANGED outsideBoot

\* The page is loaded again: the component mounts with its initial state.
Remount ==
  /\ bootPc \in {"done", "rejected"}
  /\ bootPc' = "mounted"
  /\ loadingData' = TRUE
  /\ loadedBudget' = None
  /\ budget' = NullBudget
  /\ transactions' = <<>>
  /\ UNCHANGED budgetDoc
  /\ UNCHANGED <<storeVars, archiveVars>>
  /\ UNCHANGED outsideBoot

\* Between two sessions time passes.
DaysPass(d) ==
  /\ bootPc = "mounted"
  /\ AdvanceClock(d)

BootIdle ==
  /\ loadingData = TRUE
  /\ bootPc = "mounted"
  /\ loadedBudget = None
  /\ budgetDoc = None

NextBoot ==
  \/ \E ok \in BOOLEAN : InitData(ok)
  \/ \E ok \in BOOLEAN : TsFirstRun(ok)
  \/ \E ok \in BOOLEAN : TsArchiveWeek(ok)
  \/ \E ok \in BOOLEAN : TsUpdateWeek(ok)
  \/ \E ok \in BOOLEAN : TsArchiveMonth(ok)
  \/ \E ok \in BOOLEAN : TsUpdateMonth(ok)
  \/ TsReturn
  \/ InitDataRejected
  \/ \E ok \in BOOLEAN : LoadBudget(ok)
  \/ \E ok, saved \in BOOLEAN : LoadTransactions(ok, saved)
  \/ Remount
  \/ \E d \in SessionDays : DaysPass(d)

(***************************************************************************)
(* components/Dashboard.tsx: the alert effect and the dismissals.  The     *)
(* Dashboard is mounted while view is dashboard; it is unmounted, and its  *)
(* state lost, when App renders another view.                              *)
(***************************************************************************)
outsideDash == <<dateVars, storeVars, archiveVars, budgetVars, appVars, entryVars,
                 bootVars, notifyVars, analyticsVars>>

\* Dashboard monthlyBucketSpent, the spend shown against monthlyLimit
MonthlyBucketSpent(txs) ==
  ReduceAmounts(SelectSeq(txs, LAMBDA t : CategoryBucket(t.category) = "Monthly"))

\* generated.filter(a => !dismissedIds.has(a.id))
Visible(generated, dismissed) ==
  SelectSeq(generated, LAMBDA a : a.id \notin dismissed)

\* The dependencies of the alert effect.
AlertDeps == <<budget, transactions, dismissedIds>>

\* The alert effect: it runs after the Dashboard mounts and after a render in
\* which budget, transactions or dismissedIds differ from its last run.
AlertEffect ==
  /\ view = "dashboard"
  /\ effectDeps # Some(AlertDeps)
  /\ activeAlerts' = Visible(GenerateAlerts(budget, transactions, Now), dismissedIds)
  /\ effectDeps' = Some(AlertDeps)
  /\ UNCHANGED <<view, dismissedIds, dismissedEver>>
  /\ UNCHANGED outsideDash

\* handleDismiss(id), from the button of a visible alert
HandleDismiss(id) ==
  /\ view = "dashboard"
  /\ \E i \in DOMAIN activeAlerts : activeAlerts[i].id = id
  /\ dismissedIds' = dismissedIds \cup {id}
  /\ dismissedEver' = dismissedEver \cup {id}
  /\ UNCHANGED <<view, activeAlerts, effectDeps>>
  /\ UNCHANGED outsideDash

Views == {"dashboard", "history", "summary", "weekly"}

\* setView(v): App renders another view.  Leaving the dashboard unmounts the
\* Dashboard, coming back mounts it with its initial state.
SetView(v) ==
  /\ v # view
  /\ view' = v
  /\ activeAlerts' = <<>>
  /\ dismissedIds' = {}
  /\ effectDeps' = None
  /\ UNCHANGED dismissedEver
  /\ UNCHANGED outsideDash

DashIdle ==
  /\ view = "dashboard"
  /\ activeAlerts = <<>>
  /\ dismissedIds = {}
  /\ effectDeps = None
  /\ dismissedEver = {}

\* The budgets of the Dashboard's sessions: a weekly limit and a savings goal.
DashBudgets ==
  {[monthlyIncome |-> 2,
    allocations |-> [weeklyLimit |-> 1, monthlyLimit |-> 0, savingsTarget |-> s],
    isSet |-> TRUE] : s \in {0, 1}}

\* The preview committed in a session of the Dashboard.
DashPreviews == {<<[amount |-> 1, category |-> "Groceries"]>>}

\* The days of a session: Thursday 2024-02-01 and the day after.
DashDays == {AlertToday, AlertToday + 1}

NextDash ==
  \/ AlertEffect
  \/ \E i \in 1..3 : i \in DOMAIN activeAlerts /\ HandleDismiss(activeAlerts[i].id)
  \/ \E v \in Views : SetView(v)
  \/ \E preview \in DashPreviews : HandleSubmit(preview, 0)
  \/ \E i \in 1..MaxListed : AddTransactionResumes(i)
  \/ \E d \in DashDays : AdvanceClock(d)

\* Commits while the user grants or denies the permission for notifications.
NextNotify ==
  \/ \E preview \in DashPreviews : HandleSubmit(preview, 0)
  \/ \E i \in 1..MaxListed : AddTransactionResumes(i)
  \/ \E result \in {"granted", "denied"} : RequestPermission(result)
  \/ \E d \in DashDays : AdvanceClock(d)

(***************************************************************************)
(* utils/analytics.ts: generateAnalytics                                   *)
(***************************************************************************)
\* Object.entries(KEYWORD_MAP), in the order of the literal
KeywordMap ==
 << [keyword |-> <<"z", "o", "m", "a", "t", "o">>, subCat |-> "Food Delivery"],
    [keyword |-> <<"s", "w", "i", "g", "g", "y">>, subCat |-> "Food Delivery"],
    [keyword |-> <<"u", "b", "e", "r", " ", "e", "a", "t", "s">>, subCat |-> "Food Delivery"],
    [keyword |-> <<"b", "l", "i", "n", "k", "i", "t">>, subCat |-> "Groceries"],
    [keyword |-> <<"z", "e", "p", "t", "o">>, subCat |-> "Groceries"],
    [keyword |-> <<"b", "i", "g", "b", "a", "s", "k", "e", "t">>, subCat |-> "Groceries"],
    [keyword |-> <<"i", "n", "s", "t", "a", "m", "a", "r", "t">>, subCat |-> "Groceries"],
    [keyword |-> <<"d", "m", "a", "r", "t">>, subCat |-> "Groceries"],
    [keyword |-> <<"g", "r", "o", "c", "e", "r", "y">>, subCat |-> "Groceries"],
    [keyword |-> <<"p", "e", "t", "r", "o", "l">>, subCat |-> "Petrol / Transport"],
    [keyword |-> <<"f", "u", "e", "l">>, subCat |-> "Petrol / Transport"],
    [keyword |-> <<"u", "b", "e", "r">>, subCat |-> "Petrol / Transport"],
    [keyword |-> <<"o", "l", "a">>, subCat |-> "Petrol / Transport"],
    [keyword |-> <<"r", "a", "p", "i", "d", "o">>, subCat |-> "Petrol / Transport"],
    [keyword |-> <<"n", "e", "t", "f", "l", "i", "x">>, subCat |-> "Subscriptions"],
    [keyword |-> <<"s", "p", "o", "t", "i", "f", "y">>, subCat |-> "Subscriptions"],
    [keyword |-> <<"p", "r", "i", "m", "e">>, subCat |-> "Subscriptions"],
    [keyword |-> <<"y", "o", "u", "t", "u", "b", "e">>, subCat |-> "Subscriptions"] >>

RECURSIVE FirstSubCat(_, _)
\* the for loop of getGranularCategory from the k-th keyword on: the
\* sub-category of the first keyword desc includes, None when there is none
FirstSubCat(desc, k) ==
  IF k > Len(KeywordMap) THEN None
  ELSE IF Includes(desc, KeywordMap[k].keyword) THEN Some(KeywordMap[k].subCat)
  ELSE FirstSubCat(desc, k + 1)

\* getGranularCategory(t), given the result of the keyword loop
GranularOr(t, found) ==
  IF found # None THEN found[1]
  ELSE IF t.category = "Food" THEN "Food & Dining"
  ELSE IF t.category = "Transport" THEN "Petrol / Transport"
  ELSE IF t.category = "Bills" THEN "Bills & Utilities"
  ELSE t.category

\* getGranularCategory(t)
GetGranularCategory(t) ==
  IF t.category = "Personal" THEN "Personal Purchases"
  ELSE GranularOr(t, FirstSubCat(ToLowerCase(t.description), 1))

\* The index of the entry called name in the category map, 0 when absent.
EntryIndex(entries, name) ==
  IF \E i \in DOMAIN entries : entries[i].name = name
    THEN CHOOSE i \in DOMAIN entries : entries[i].name = name
    ELSE 0

\* The body of transactions.forEach for t whose granular category is name:
\* a new entry is appended, in the order Object.entries lists the keys.
CountInto(entries, name, t, at) ==
  IF at = 0
    THEN Append(entries, [name |-> name, amount |-> t.amount, count |-> 1])
    ELSE [entries EXCEPT ![at] = [name |-> name, amount |-> @.amount + t.amount,
                                  count |-> @.count + 1]]

RECURSIVE CategoryMapOf(_, _, _)
\* categoryMap after the forEach has handled the transactions from the k-th on
CategoryMapOf(entries, txs, k) ==
  IF k > Len(txs) THEN entries
  ELSE CategoryMapOf(
         CountInto(entries, GetGranularCategory(txs[k]), txs[k],
                   EntryIndex(entries, GetGranularCategory(txs[k]))),
         txs, k + 1)

\* Math.round((amount / totalSpent) * 100) for totalSpent > 0, else 0
Percentage(amount, totalSpent) ==
  IF totalSpent > 0 THEN (200 * amount + totalSpent) \div (2 * totalSpent) ELSE 0

\* The map callback of the breakdown.
WithPercentage(entries, totalSpent) ==
  [i \in DOMAIN entries |->
     [name |-> entries[i].name, amount |-> entries[i].amount,
      percentage |-> Percentage(entries[i].amount, totalSpent),
      count |-> entries[i].count]]

\* e inserted into the sorted sequence after every element that is not
\* smaller: the sort is stable.
InsertByAmount(sorted, e) ==
  LET before == Cardinality({i \in DOMAIN sorted : sorted[i].amount >= e.amount})
  IN SubSeq(sorted, 1, before) \o <<e>> \o SubSeq(sorted, before + 1, Len(sorted))

RECURSIVE SortedFrom(_, _, _)
SortedFrom(sorted, entries, k) ==
  IF k > Len(entries) THEN sorted
  ELSE SortedFrom(InsertByAmount(sorted, entries[k]), entries, k + 1)

\* Mutant: the breakdown is left in the order of the category map.
Unsorted(entries) == entries

\* sort((a, b) => b.amount - a.amount)
SortByAmountDesc(entries) == SortedFrom(<<>>, entries, 1)

\* breakdown.slice(0, 3)
Slice3(breakdown) == SubSeq(breakdown, 1, IF Len(breakdown) < 3 THEN Len(breakdown) ELSE 3)

\* the insights, each as its kind and the values it quotes
InsightsOf(breakdown, totalSpent) ==
  IF Len(breakdown) = 0 THEN <<>>
  ELSE <<[kind |-> "top", name |-> breakdown[1].name, amount |-> breakdown[1].amount]>>
       \o SelectSeq([i \in DOMAIN breakdown |->
                      [kind |-> "foodDelivery", name |-> breakdown[i].name,
                       amount |-> breakdown[i].percentage]],
                    LAMBDA b : b.name = "Food Delivery" /\ b.amount > 20)
       \o SelectSeq([i \in DOMAIN breakdown |->
                      [kind |-> "personal", name |-> breakdown[i].name,
                       amount |-> breakdown[i].percentage]],
                    LAMBDA b : b.name = "Personal Purchases"
                               /\ 100 * breakdown[EntryIndex(breakdown, b.name)].amount
                                    > 15 * totalSpent)

\* generateAnalytics, given totalSpent and the sorted breakdown
AnalyticsOf(txs, totalSpent, breakdown) ==
  [totalSpent |-> totalSpent,
   breakdown |-> breakdown,
   topCategories |-> Slice3(breakdown),
   personalPurchases |-> SelectSeq(txs, LAMBDA t : t.category = "Personal"),
   insights |-> InsightsOf(breakdown, totalSpent)]

\* generateAnalytics(transactions)
GenerateAnalytics(txs) ==
  AnalyticsOf(txs, ReduceAmounts(txs),
              SortByAmountDesc(WithPercentage(CategoryMapOf(<<>>, txs, 1),
                                              ReduceAmounts(txs))))

\* SpendingsSummary calls generateAnalytics(transactions).
CallGenerateAnalytics ==
  /\ analytics = None
  /\ analytics' = Some(GenerateAnalytics(transactions))
  /\ UNCHANGED <<dateVars, storeVars, archiveVars, budgetVars, appVars, entryVars,
                 bootVars, dashVars, notifyVars>>

AnalyticsIdle == analytics = None

\* The transactions handed to the analytics engine: orders by delivery apps,
\* rides, and expenses no keyword matches.
AnalyticsSamples ==
  {[id |-> NumberToString(0), amount |-> 2, category |-> "Orders",
    description |-> <<"Z", "o", "m", "a", "t", "o">>,
    date |-> [day |-> 0, hour |-> 12]],
   [id |-> NumberToString(0), amount |-> 1, category |-> "Outings",
    description |-> <<"u", "b", "e", "r", " ", "e", "a", "t", "s">>,
    date |-> [day |-> 0, hour |-> 12]],
   [id |-> NumberToString(0), amount |-> 1, category |-> "Petrol",
    description |-> <<"U", "b", "e", "r">>,
    date |-> [day |-> 0, hour |-> 12]],
   [id |-> NumberToString(0), amount |-> 3, category |-> "Outings",
    description |-> <<"t", "e", "a">>,
    date |-> [day |-> 0, hour |-> 12]],
   [id |-> NumberToString(0), amount |-> 1, category |-> "Bills",
    description |-> <<"t", "e", "a">>,
    date |-> [day |-> 0, hour |-> 12]],
   [id |-> NumberToString(0), amount |-> 4, category |-> "Groceries",
    description |-> <<"m", "i", "l", "k">>,
    date |-> [day |-> 0, hour |-> 12]]}

AnalyticsTransactions ==
  UNION { [1..n -> AnalyticsSamples] : n \in 0..MaxAnalyticsTx }

NextAnalytics == CallGenerateAnalytics

\* The Dashboard, the notification service and the analytics engine at rest.
ViewIdle == DashIdle /\ NotifyIdle /\ AnalyticsIdle

(***************************************************************************)
(* Specifications                                                          *)
(***************************************************************************)
\* Two dates are drawn; nothing else exists.
InitDate ==
  /\ date1 \in DateInputs
  /\ date2 \in DateInputs
  /\ sameWeek = None
  /\ weekId1 = None
  /\ weekId2 = None
  /\ StoreIdle /\ ArchiveIdle /\ BudgetIdle /\ AppIdle /\ EntryIdle /\ BootIdle /\ ViewIdle

NextDate == CallIsSameWeek \/ CallGetCurrentWeekId

\* The date utility applied to drawn dates.
SpecDate == InitDate /\ [][NextDate]_vars

\* A new user: no meta document, no snapshot, no transaction.
InitArchive == StoreIdle /\ ArchiveIdle /\ DateIdle /\ BudgetIdle /\ AppIdle /\ EntryIdle /\ BootIdle /\ ViewIdle

\* A new user: loadBudget found no document, the setup form is shown.
InitBudget == BudgetIdle /\ DateIdle /\ StoreIdle /\ ArchiveIdle /\ AppIdle /\ EntryIdle /\ BootIdle /\ ViewIdle

\* The budget through setup, reset and the Dashboard's inline edits.
SpecBudget == InitBudget /\ [][NextBudget]_vars

\* A signed-in user with no transaction yet.
InitTx == AppIdle /\ StoreIdle /\ BudgetIdle /\ DateIdle /\ ArchiveIdle /\ EntryIdle /\ BootIdle /\ ViewIdle

\* Commits and deletions in the signed-in app; store calls succeed.
SpecTx == InitTx /\ [][NextTx]_vars

\* The arguments of generateAlerts.
InitAlerts ==
  /\ DateIdle /\ ArchiveIdle /\ EntryIdle /\ BootIdle /\ ViewIdle
  /\ txStore = <<>>
  /\ clock = AlertToday
  /\ budget \in AlertBudgets
  /\ income = EmptyText
  /\ allocations = InitialAllocations
  /\ editing = None
  /\ editValue = EmptyText
  /\ lastOp = "mount"
  /\ lastEdit = None
  /\ updateCalled = FALSE
  /\ transactions \in AlertTransactions
  /\ alerts = None
  /\ nowMs = 0
  /\ pending = <<>>
  /\ overwritten = {}

\* generateAlerts applied to budgets and transaction lists.
SpecAlerts == InitAlerts /\ [][NextAlerts]_vars

\* The parser's functions applied to the sampled texts.
InitParser ==
  /\ rawText \in ParserTexts
  /\ parsedOne = None
  /\ parsedMany = None
  /\ StoreIdle /\ ArchiveIdle /\ BudgetIdle /\ AppIdle /\ DateIdle /\ ClassifierIdle /\ InputIdle
  /\ BootIdle /\ ViewIdle

SpecParser == InitParser /\ [][NextParser]_vars

\* parseExpenseWithAI applied to inputs and replies of the service.
InitClassifier ==
  /\ aiInput \in ClassifierInputs
  /\ aiReply \in Replies
  /\ aiResult = None
  /\ StoreIdle /\ ArchiveIdle /\ BudgetIdle /\ AppIdle /\ DateIdle /\ ParserIdle /\ InputIdle
  /\ BootIdle /\ ViewIdle

SpecClassifier == InitClassifier /\ [][NextClassifier]_vars

\* The text entry component: typing, the debounce timer, the classifier's
\* answers and commits.
InitInput ==
  /\ InputIdle
  /\ StoreIdle /\ ArchiveIdle /\ BudgetIdle /\ AppIdle /\ DateIdle
  /\ ParserIdle /\ ClassifierIdle /\ BootIdle /\ ViewIdle

SpecInput == InitInput /\ [][NextInput]_vars

\* Sessions one after the other, each starting with initData; the store
\* holds a transaction, and a budget or none, and may reject any call.
InitBoot ==
  /\ loadingData = TRUE
  /\ bootPc = "mounted"
  /\ loadedBudget = None
  /\ budgetDoc \in {None, Some(SavedBudget)}
  /\ budget = NullBudget
  /\ income = EmptyText
  /\ allocations = InitialAllocations
  /\ editing = None
  /\ editValue = EmptyText
  /\ lastOp = "mount"
  /\ lastEdit = None
  /\ updateCalled = FALSE
  /\ clock = 0
  /\ txStore \in {<<>>, SetDoc(<<>>, 1, [id |-> 1, amount |-> 1,
                                         category |-> "Groceries",
                                         date |-> [day |-> 0, hour |-> 12]])}
  /\ ArchiveIdle /\ AppIdle /\ DateIdle /\ EntryIdle /\ ViewIdle

SpecBoot == InitBoot /\ [][NextBoot]_vars

\* A session on the Dashboard: commits, dismissals, other views, and the
\* next day.
InitDash ==
  /\ DateIdle /\ ArchiveIdle /\ EntryIdle /\ BootIdle /\ ViewIdle
  /\ txStore = <<>>
  /\ clock = AlertToday
  /\ budget \in DashBudgets
  /\ income = EmptyText
  /\ allocations = InitialAllocations
  /\ editing = None
  /\ editValue = EmptyText
  /\ lastOp = "mount"
  /\ lastEdit = None
  /\ updateCalled = FALSE
  /\ AppIdle

SpecDash == InitDash /\ [][NextDash]_vars

\* Sessions that edit the limits of a budget loaded from the store, which
\* loadBudget has given its per-category limits.
InitLimits ==
  /\ DateIdle /\ StoreIdle /\ ArchiveIdle /\ AppIdle /\ EntryIdle /\ BootIdle /\ ViewIdle
  /\ budget = [monthlyIncome |-> 2,
               allocations |-> [weeklyLimit |-> 1, monthlyLimit |-> 0, savingsTarget |-> 1,
                                weeklyCategoryLimits |-> DefaultCategoryLimits],
               isSet |-> TRUE]
  /\ income = EmptyText
  /\ allocations = InitialAllocations
  /\ editing = None
  /\ editValue = EmptyText
  /\ lastOp = "mount"
  /\ lastEdit = None
  /\ updateCalled = FALSE

SpecLimits == InitLimits /\ [][NextLimits]_vars

\* The notification checks of a session, the budget as in SpecDash.
SpecNotify == InitDash /\ [][NextNotify]_vars

\* generateAnalytics applied to transaction lists.
InitAnalytics ==
  /\ StoreIdle /\ ArchiveIdle /\ BudgetIdle /\ DateIdle /\ EntryIdle /\ BootIdle
  /\ DashIdle /\ NotifyIdle /\ AnalyticsIdle
  /\ transactions \in AnalyticsTransactions
  /\ alerts = None
  /\ nowMs = 0
  /\ pending = <<>>
  /\ overwritten = {}

SpecAnalytics == InitAnalytics /\ [][NextAnalytics]_vars

\* The archiver at the start of a session on AlertToday, over the stores and
\* the HistoryMeta documents it can find.
InitSnapshot ==
  /\ DateIdle /\ BudgetIdle /\ AppIdle /\ EntryIdle /\ BootIdle /\ ViewIdle
  /\ clock = YearStart(2024) + MonthStart(2024, 2)
  /\ txStore \in {StoreOf(txs) : txs \in StatsStores}
  /\ meta \in StatsMetas
  /\ historyWeeks = <<>>
  /\ historyMonths = <<>>
  /\ tsPc = "idle"
  /\ tsMeta = None
  /\ tsWeekId = None
  /\ tsMonthId = None
  /\ failures = 0
  /\ thisRun = None
  /\ prevRun = None
  /\ rewritten = {}

SpecSnapshot == InitSnapshot /\ [][NextSnapshot]_vars

\* The archiver over session starts, with store calls that may be rejected.
SpecArchive == InitArchive /\ [][NextArchive]_vars

\* The archiver over session starts, with a store that never rejects a call.
SpecArchiveReliable == InitArchive /\ [][NextArchiveReliable]_vars

(***************************************************************************)
(* Reference notions used by the properties                                *)
(***************************************************************************)
\* The Monday that starts the Monday-to-Sunday week of a day (day 0 is a Monday).
MondayOf(day) == day - (day % 7)

IsSunday(day) == day % 7 = 6

\* C10: isSameWeek(a, b) is true iff the Monday starting a's week and the Monday
\* starting b's week are the same calendar date, whatever the times of day; a
\* Sunday is in the week of the Monday six days earlier and not in the week of
\* the Monday that follows it.
C10_IsSameWeekIffSameMonday ==
  sameWeek # None =>
    /\ sameWeek[1] = (MondayOf(date1.day) = MondayOf(date2.day))
    /\ (IsSunday(date1.day) /\ date2.day = date1.day - 6) => sameWeek[1] = TRUE
    /\ (IsSunday(date1.day) /\ date2.day = date1.day + 1) => sameWeek[1] = FALSE

\* A Sunday late in the day compared with the Monday six days before it.
C10_Witness ==
  /\ sameWeek = Some(TRUE)
  /\ IsSunday(date1.day) /\ date1.hour = 23
  /\ date2.day = date1.day - 6 /\ date2.hour = 0

\* C9: two dates receive the same week identifier iff they lie in the same
\* Monday-to-Sunday week, also across a calendar-year boundary.
C9_SameWeekIdIffSameWeek ==
  weekId1 # None =>
    ((weekId1 = weekId2) <=> (MondayOf(date1.day) = MondayOf(date2.day)))

(***************************************************************************)
(* The archiver's properties                                               *)
(***************************************************************************)
\* The latest run started with the same week and month identifiers as the run before.
SameIdsAsPrevRun ==
  /\ thisRun # None
  /\ prevRun # None
  /\ prevRun[1].week = thisRun[1].week
  /\ prevRun[1].month = thisRun[1].month

\* The latest run has written no snapshot and left HistoryMeta as it found it.
RunWroteNothing ==
  /\ thisRun[1].writes = {}
  /\ meta = thisRun[1].metaAtStart

C7_MetaAdvancesOnlyAfterSnapshot ==
  (thisRun # None /\ thisRun[1].metaAtStart # None) =>
    LET run == thisRun[1]
        before == run.metaAtStart[1]
        now == meta[1]
    IN /\ now.lastActiveWeek # before.lastActiveWeek =>
            /\ <<"week", before.lastActiveWeek>> \in run.writes
            /\ before.lastActiveWeek \in DOMAIN historyWeeks
            /\ now.lastActiveWeek = run.week
       /\ now.lastActiveMonth # before.lastActiveMonth =>
            /\ <<"month", before.lastActiveMonth>> \in run.writes
            /\ before.lastActiveMonth \in DOMAIN historyMonths
            /\ now.lastActiveMonth = run.month
       /\ (run.outcome = "failed" /\ run.stage = "archiveWeek") =>
            now.lastActiveWeek = before.lastActiveWeek
       /\ (run.outcome = "failed" /\ run.stage = "archiveMonth") =>
            now.lastActiveMonth = before.lastActiveMonth

\* A run whose week snapshot failed left P in place; the next run archived P
\* and advanced the field.
C7_Witness ==
  /\ prevRun # None /\ thisRun # None
  /\ prevRun[1].outcome = "failed" /\ prevRun[1].stage = "archiveWeek"
  /\ thisRun[1].outcome = "ok"
  /\ <<"week", thisRun[1].metaAtStart[1].lastActiveWeek>> \in thisRun[1].writes
  /\ meta[1].lastActiveWeek = thisRun[1].week
  /\ meta[1].lastActiveWeek # thisRun[1].metaAtStart[1].lastActiveWeek

\* C8: once a weekly or monthly snapshot has been written under an identifier,
\* no later run writes the document of that identifier again.
C8_SnapshotWrittenOnce == rewritten = {}

\* The latest run of the archiver found no HistoryMeta document.
IsFirstRun == thisRun # None /\ thisRun[1].metaAtStart = None

\* C23: a run that finds no HistoryMeta writes no weekly or monthly snapshot,
\* and when it has returned HistoryMeta holds the week and month identifiers
\* of the day of the run; if its write is rejected there is still no meta.
C23_FirstRunWritesMetaOnly ==
  IsFirstRun =>
    /\ thisRun[1].writes = {}
    /\ historyWeeks = <<>>
    /\ historyMonths = <<>>
    /\ thisRun[1].outcome = "ok" =>
         meta = Some([lastActiveWeek |-> thisRun[1].week,
                      lastActiveMonth |-> thisRun[1].month])
    /\ thisRun[1].outcome # "ok" => meta = None

\* A first run has returned while the store holds a transaction.
C23_Witness ==
  /\ IsFirstRun
  /\ thisRun[1].outcome = "ok"
  /\ txStore # <<>>
  /\ meta # None

RECURSIVE SumOfValues(_)
\* The sum of the values of a categoryBreakdown.
SumOfValues(f) ==
  IF DOMAIN f = {} THEN 0
  ELSE LET c == CHOOSE x \in DOMAIN f : TRUE
       IN f[c] + SumOfValues([x \in DOMAIN f \ {c} |-> f[x]])

RECURSIVE AmountsFrom(_, _, _)
\* The sum of the amounts of the documents k..n of the store whose key is
\* in keys.
AmountsFrom(k, n, keys) ==
  IF k > n THEN 0
  ELSE (IF k \in keys THEN txStore[k].amount ELSE 0)
       + AmountsFrom(k + 1, n, keys)

\* The snapshot snap is the one of the stored transactions that inPeriod
\* holds of.
SnapshotCovers(snap, inPeriod(_)) ==
  LET n == Cardinality(DOMAIN txStore)
      saved == {k \in DOMAIN txStore :
                  inPeriod(txStore[k]) /\ txStore[k].category = "Savings"}
      spent == {k \in DOMAIN txStore :
                  inPeriod(txStore[k]) /\ txStore[k].category # "Savings"}
  IN /\ snap.totalSaved = AmountsFrom(1, n, saved)
     /\ snap.totalSpent = AmountsFrom(1, n, spent)
     /\ "Savings" \notin DOMAIN snap.categoryBreakdown
     /\ SumOfValues(snap.categoryBreakdown) = snap.totalSpent
     /\ \A c \in DOMAIN snap.categoryBreakdown :
          snap.categoryBreakdown[c] =
            AmountsFrom(1, n, {k \in spent : txStore[k].category = c})

\* C24: the snapshot archiveWeek (archiveMonth) has just written for the
\* stored identifier P covers exactly the stored transactions whose week
\* (month) identifier is P: totalSaved sums their Savings amounts, totalSpent
\* the amounts of their other categories, and categoryBreakdown has no
\* Savings key and values that sum to totalSpent.
C24_SnapshotCoversPeriod ==
  /\ tsPc = "weekArchived" =>
       LET inWeek(t) == WeekIdOfDay(t.date.day) = tsMeta[1].lastActiveWeek
       IN SnapshotCovers(historyWeeks[tsMeta[1].lastActiveWeek], inWeek)
  /\ tsPc = "monthArchived" =>
       LET inMonth(t) == MonthIdOfDay(t.date.day) = tsMeta[1].lastActiveMonth
       IN SnapshotCovers(historyMonths[tsMeta[1].lastActiveMonth], inMonth)

\* A month snapshot that covers a Savings transaction and two others, while
\* the store holds a transaction of another week.
C24_Witness ==
  /\ tsPc = "monthArchived"
  /\ historyMonths[tsMeta[1].lastActiveMonth].totalSaved > 0
  /\ historyMonths[tsMeta[1].lastActiveMonth].totalSpent > 2
  /\ historyWeeks # <<>>
  /\ \E w \in DOMAIN historyWeeks :
       historyWeeks[w].totalSpent < historyMonths[tsMeta[1].lastActiveMonth].totalSpent

(***************************************************************************)
(* The budget's properties                                                 *)
(***************************************************************************)
\* C2: in every reachable BudgetState with isSet = true, savingsTarget <=
\* monthlyIncome, through any sequence of setup completions, resets and edits.
C2_SavingsWithinIncome ==
  budget.isSet => budget.allocations.savingsTarget <= budget.monthlyIncome

\* The step is a handleSaveEdit of a savings goal greater than the income.
SavingsEditAboveIncome ==
  /\ lastOp' = "handleSaveEdit"
  /\ editing = Some("Savings")
  /\ ParseFloat(editValue) # None
  /\ ParseFloat(editValue)[1] > budget.monthlyIncome

\* C3: a Dashboard edit setting the savings goal above monthlyIncome is
\* rejected: onUpdateBudget is not called, the BudgetState is unchanged, the
\* edit value is reverted to the prior savingsTarget and edit mode ends.
C3_SavingsEditRejected ==
  [][SavingsEditAboveIncome =>
       /\ ~updateCalled'
       /\ budget' = budget
       /\ editValue' = NumberToString(budget.allocations.savingsTarget)
       /\ ParseFloat(editValue') = Some(budget.allocations.savingsTarget)
       /\ editing' = None]_vars

\* handleSaveEdit has just read a savings goal above the income.
C3_Witness ==
  /\ lastOp = "handleSaveEdit"
  /\ lastEdit # None
  /\ lastEdit[1].key = "Savings"
  /\ lastEdit[1].val # None
  /\ lastEdit[1].val[1] > budget.monthlyIncome
  /\ budget.allocations.savingsTarget <= budget.monthlyIncome
  /\ editing = None

(***************************************************************************)
(* The alert engine's properties                                           *)
(***************************************************************************)
RECURSIVE TotalOf(_, _)
\* The sum of the amounts of the first n transactions whose index is in keep.
TotalOf(n, keep) ==
  IF n = 0 THEN 0
  ELSE (IF n \in keep THEN transactions[n].amount ELSE 0) + TotalOf(n - 1, keep)

\* The transactions dated in the Monday-to-Sunday week of today.
ThisWeek == {i \in DOMAIN transactions :
               MondayOf(transactions[i].date.day) = MondayOf(clock)}

\* The transactions dated in the calendar month of today.
ThisMonth == {i \in DOMAIN transactions :
                /\ GetYear(transactions[i].date.day) = GetYear(clock)
                /\ GetMonth(transactions[i].date.day) = GetMonth(clock)}

\* The spend of the weekly limit: this week's Weekly-bucket transactions.
WeeklySpend ==
  TotalOf(Len(transactions),
          {i \in ThisWeek : transactions[i].category \notin {"Bills", "Savings"}})

\* The spend of the monthly limit: this month's Monthly-bucket transactions.
MonthlySpend ==
  TotalOf(Len(transactions), {i \in ThisMonth : transactions[i].category = "Bills"})

\* The spend of a category's weekly limit: this week's transactions of it.
CategorySpend(cat) ==
  TotalOf(Len(transactions), {i \in ThisWeek : transactions[i].category = cat})

\* The types of the emitted alerts that satisfy a test, in order.
TypesOfAlerts(Test(_)) ==
  LET sel == SelectSeq(alerts[1], Test) IN [i \in DOMAIN sel |-> sel[i].type]

\* What the thresholds ask for a spend S against a limit L > 0.
ThresholdTypes(S, L) ==
  IF S > L THEN <<"critical">>
  ELSE IF 5 * S >= 4 * L THEN <<"warning">>
  ELSE <<>>

\* C4: for a spend-type limit L > 0 and its spend S, generateAlerts emits
\* exactly one alert for the limit, critical, when S > L; exactly one, warning,
\* when 0.8 L <= S <= L; and none for the limit when S < 0.8 L.
C4_ThresholdAlerts ==
  alerts # None =>
    /\ budget.allocations.weeklyLimit > 0 =>
         TypesOfAlerts(LAMBDA a : a.id[1] = "weekly" /\ a.id[2] # "cat")
           = ThresholdTypes(WeeklySpend, budget.allocations.weeklyLimit)
    /\ budget.allocations.monthlyLimit > 0 =>
         TypesOfAlerts(LAMBDA a : a.id[1] = "monthly")
           = ThresholdTypes(MonthlySpend, budget.allocations.monthlyLimit)
    /\ \A cat \in DOMAIN CategoryLimits(budget) :
         CategoryLimits(budget)[cat] > 0 =>
           TypesOfAlerts(LAMBDA a : a.id[1] = "weekly" /\ a.id[2] = "cat" /\ a.id[4] = cat)
             = ThresholdTypes(CategorySpend(cat), CategoryLimits(budget)[cat])

\* The weekly spend is exactly 80% of the weekly limit, beside a transaction
\* of last week, and the weekly alert is a warning.
C4_Witness ==
  /\ alerts # None
  /\ budget.allocations.weeklyLimit > 0
  /\ 5 * WeeklySpend = 4 * budget.allocations.weeklyLimit
  /\ DOMAIN transactions \ ThisWeek # {}
  /\ \E i \in DOMAIN alerts[1] :
       alerts[1][i].id[1] = "weekly" /\ alerts[1][i].id[2] # "cat"
         /\ alerts[1][i].type = "warning"

\* C5: with savingsTarget > 0 generateAlerts emits exactly one savings alert,
\* success if monthlyIncome minus the sum of all transactions' amounts (all
\* time, every category) is >= savingsTarget and warning otherwise, never
\* critical; with savingsTarget <= 0 it emits no savings alert.
C5_SavingsAlert ==
  alerts # None =>
    TypesOfAlerts(LAMBDA a : a.id[1] = "savings")
      = IF budget.allocations.savingsTarget <= 0 THEN <<>>
        ELSE IF budget.monthlyIncome
                  - TotalOf(Len(transactions), DOMAIN transactions)
                  >= budget.allocations.savingsTarget
          THEN <<"success">>
        ELSE <<"warning">>

\* A savings warning that only last month's transactions bring about.
C5_Witness ==
  /\ alerts # None
  /\ budget.allocations.savingsTarget > 0
  /\ budget.monthlyIncome - TotalOf(Len(transactions), ThisMonth)
       >= budget.allocations.savingsTarget
  /\ \E i \in DOMAIN alerts[1] :
       alerts[1][i].id[1] = "savings" /\ alerts[1][i].type = "warning"

(***************************************************************************)
(* The transaction list's properties                                       *)
(***************************************************************************)
\* C1: after any sequence of commits, a multi-item preview included, the
\* transactions of the in-memory list have pairwise distinct ids, and every
\* add created a new stored document and wrote over no existing one.
C1_DistinctIds ==
  /\ \A i, j \in DOMAIN transactions :
       i # j => transactions[i].id # transactions[j].id
  /\ overwritten = {}

\* C28: when no add or delete is waiting for the store, the in-memory list
\* holds exactly the stored transactions: one entry per stored document,
\* with the document's record, and no entry without a document.
C28_ListMatchesStore ==
  pending = <<>> =>
    /\ Len(transactions) = Cardinality(DOMAIN txStore)
    /\ \A i \in DOMAIN transactions :
         /\ transactions[i].id \in DOMAIN txStore
         /\ txStore[transactions[i].id] = transactions[i]
    /\ \A id \in DOMAIN txStore : \E i \in DOMAIN transactions : transactions[i].id = id

(***************************************************************************)
(* The parser's properties                                                 *)
(***************************************************************************)
\* word occurs somewhere in str.
Occurs(word, str) ==
  \E i \in 1..Len(str), j \in 0..Len(str) : SubSeq(str, i, j) = word

\* The table's categories that have a keyword occurring in the lower-cased text.
CategoriesWithKeyword ==
  {k \in DOMAIN Keywords :
     \E w \in DOMAIN Keywords[k].words :
       Occurs(Keywords[k].words[w], ToLowerCase(rawText))}

\* parseExpenseInput's category is the first in table order that has a keyword
\* occurring in the lower-cased text.
FirstMatchWins ==
  parsedOne # None /\ CategoriesWithKeyword # {} =>
    \E k \in CategoriesWithKeyword :
      /\ parsedOne[1].category = Keywords[k].cat
      /\ \A l \in CategoriesWithKeyword : k <= l

\* C16 as stated: first match in table order, and "zomato order for dinner,
\* 300" is an Orders expense.
C16_ZomatoIsOrders ==
  /\ FirstMatchWins
  /\ parsedOne # None /\ rawText = ZomatoText => parsedOne[1].category = "Orders"

\* C16: parseExpenseInput returns the first category, in the order of its
\* keyword table, that has a keyword occurring in the lower-cased text; for
\* "zomato order for dinner, 300" that is Outings (dinner), which precedes
\* Orders (zomato) in the table.
C16_ZomatoIsOutings ==
  /\ FirstMatchWins
  /\ parsedOne # None /\ rawText = ZomatoText => parsedOne[1].category = "Outings"

\* The example has been parsed; keywords of two categories occur in it.
C16_Witness ==
  /\ rawText = ZomatoText
  /\ parsedOne # None
  /\ parsedOne[1].category = "Outings"
  /\ {Keywords[k].cat : k \in CategoriesWithKeyword} = {"Outings", "Orders"}

\* C17: parseMultipleExpenses does not split inside an amount written with
\* thousands separators: "Spent 1,200.50 on groceries" yields exactly one
\* expense, 1200.50 of Groceries, the same as parseExpenseInput on the text.
C17_ThousandsNotSplit ==
  parsedMany # None /\ rawText = SpentText =>
    /\ Len(parsedMany[1]) = 1
    /\ parsedMany[1][1].amount = Some(120050)
    /\ parsedMany[1][1].category = "Groceries"
    /\ parsedMany[1][1] = ParseExpenseInput(rawText, clock)

\* C18: for a single expense whose description contains a comma, "Dinner at
\* mom's, roti place - 250", parseMultipleExpenses returns one item, the
\* parse of the whole text.
C18_CommaInDescription ==
  parsedMany # None /\ rawText = DinnerText =>
    parsedMany[1] = <<ParseExpenseInput(rawText, clock)>>

(***************************************************************************)
(* The classifier adapter's properties                                     *)
(***************************************************************************)
\* The nine values of TransactionCategory, as string values.
EnumCategories == {JsString(CategoryText(c)) : c \in Categories}

\* C13: every expense parseExpenseWithAI returns has a category that is one
\* of the nine enum values, whatever label the service returned; a label the
\* synonym table does not resolve becomes Miscellaneous.
C13_CategoryInEnum ==
  aiResult # None =>
    \A i \in DOMAIN aiResult[1] : aiResult[1][i].category \in EnumCategories

\* C14: parseExpenseWithAI drops every candidate whose amount is null or
\* absent: no element of its result has a null or missing amount.
C14_NoMissingAmount ==
  aiResult # None =>
    \A i \in DOMAIN aiResult[1] : aiResult[1][i].amount \notin {JsNull, JsUndefined}

(***************************************************************************)
(* Properties of the text entry component                                  *)
(***************************************************************************)
\* C11: the preview is never set from an answer of the classifier whose
\* request text differs from the input at the time the answer arrives: such
\* an answer is discarded.
C11_StaleResponseDiscarded ==
  lastCall # None /\ lastCall[1].applied => lastCall[1].request = inputValue

\* C27: after a commit has cleared the input the preview stays empty until
\* the user types again: no answer of the classifier that arrives after the
\* commit sets the preview.
C27_PreviewEmptyAfterCommit ==
  committed => inputValue = <<>> /\ (previewItems = None \/ previewItems[1] = <<>>)

\* C12: when the call to the classifier fails (the request is rejected, the
\* reply has no content, the content is not JSON, the JSON has no expenses
\* array), parseExpenseWithAI returns an empty list and the preview stays
\* what it was, so that the heuristic result computed for the current input
\* is still the preview.
C12_FailureKeepsPreview ==
  lastCall # None /\ lastCall[1].failed =>
    /\ lastCall[1].result = <<>>
    /\ previewItems = lastCall[1].before
    /\ lastCall[1].before = EffectPreview(inputValue) =>
          previewItems = EffectPreview(inputValue)

\* A call for the current input has failed while the heuristic result for
\* that input was the preview, and it still is.
C12_Witness ==
  /\ lastCall # None
  /\ lastCall[1].failed
  /\ lastCall[1].request = inputValue
  /\ previewItems # None
  /\ previewItems = EffectPreview(inputValue)

\* C15: every transaction handed to the store, whether its expense came from
\* the heuristic parser or from the classifier, has an amount that is a
\* number and is not negative.
C15_AmountNotNegative ==
  \A i \in DOMAIN written :
    written[i].amount.t = "number" /\ written[i].amount.v >= 0

\* C20: at most one debounce timer is pending; a pending timer is the one
\* the last change of the input started, every earlier one having been
\* cancelled; and a request reaches the classifier only from a timer whose
\* text was still the input after the whole quiet period, that text being
\* longer than 3 characters once trimmed.
C20_OneDebounceTimer ==
  /\ Cardinality(timers) <= 1
  /\ \A t \in timers :
       /\ t.text = inputValue
       /\ t.left = DebounceTicks - quiet
       /\ debounceTimer = Some(t.id)
  /\ \A i \in DOMAIN inFlight :
       /\ inFlight[i].text = inFlight[i].current
       /\ inFlight[i].quiet = DebounceTicks
       /\ Len(Trim(inFlight[i].text)) > 3

\* A request is in flight for an earlier input while the timer of the
\* input typed after it is pending.
C20_Witness ==
  /\ inFlight # <<>>
  /\ \E t \in timers : t.text = inputValue /\ t.text # inFlight[1].text

(***************************************************************************)
(* Properties of the start of a session                                    *)
(***************************************************************************)
\* initData has run as far as it will: it has returned or it has rejected.
InitDataSettled == bootPc \in {"done", "rejected"}

\* C19: when a store call of timeService.init has failed during the start of
\* a session, the start still completes: once initData has run as far as it
\* will, the budget and the transactions have been loaded and loadingData is
\* false.
C19_ArchiverFailureDoesNotBlock ==
  InitDataSettled /\ thisRun # None /\ thisRun[1].outcome = "failed" =>
    /\ loadingData = FALSE
    /\ budget # NullBudget
    /\ loadedBudget # None

\* C29: the start of a session, in which the user produces no budget, writes
\* to the stored budget nothing but the value read from it: a stored budget
\* stays what it is, whether or not the read of the budget fails.
C29_StoredBudgetKept ==
  [][budgetDoc # None => budgetDoc' = budgetDoc]_vars

(***************************************************************************)
(* Properties of the Dashboard's alerts                                    *)
(***************************************************************************)
\* The alert effect has run for the budget, transactions and dismissals of
\* the current render.
AlertEffectHasRun == view = "dashboard" /\ effectDeps = Some(AlertDeps)

\* C21 (first part): a step of the alert effect leaves, as the visible
\* alerts, exactly the alerts generateAlerts produces for the current budget
\* and transactions whose id is not in the dismissed set.
EffectShowsUndismissed ==
  [][effectDeps' # effectDeps /\ effectDeps' # None =>
       activeAlerts' = SelectSeq(GenerateAlerts(budget', transactions', Now'),
                                 LAMBDA a : a.id \notin dismissedIds')]_vars

\* C21: once the alert effect has run, no alert whose id was dismissed
\* earlier in the session is visible.
C21_DismissedNeverVisible ==
  AlertEffectHasRun =>
    \A i \in DOMAIN activeAlerts : activeAlerts[i].id \notin dismissedEver

(***************************************************************************)
(* Properties of the notifications                                         *)
(***************************************************************************)
\* The notification is the one checkAndSendNotifications makes of alert a.
NotificationOf(n, a) ==
  n.title = a.title /\ n.body = a.message /\ n.tag = a.id

\* C22: every notification of a check is sent under a granted permission
\* and carries the title, message and id of a checked alert of type warning
\* or critical; none is sent for an alert of type success.
C22_OnlyWarningOrCritical ==
  notified # None =>
    \A k \in DOMAIN notified[1].sent :
      /\ notified[1].permission = "granted"
      /\ \E i \in DOMAIN notified[1].alerts :
           /\ NotificationOf(notified[1].sent[k], notified[1].alerts[i])
           /\ notified[1].alerts[i].type \in {"warning", "critical"}

(***************************************************************************)
(* Properties of the per-category limits                                   *)
(***************************************************************************)
\* The weekly limit of category c in budget b: limit || 0 of what
\* weeklyCategoryLimits || {} holds for c.
CategoryLimitOf(b, c) ==
  IF c \in DOMAIN WeeklyCategoryLimits(b) THEN WeeklyCategoryLimits(b)[c] ELSE 0

\* A per-category edit changes the limit of the edited category only.
CategoryEditChangesOneLimit ==
  [][lastOp' = "handleSaveCategoryEdit" =>
       \A c \in Categories \ {lastEdit'[1].key} :
         CategoryLimitOf(budget', c) = CategoryLimitOf(budget, c)]_vars

\* C30: a step of any handler other than the per-category edit (a Dashboard
\* limit edit, a reset, the setup form and its completion) leaves the weekly
\* limit of every category as it was.
C30_CategoryLimitsKept ==
  [][lastOp' # "handleSaveCategoryEdit" =>
       \A c \in Categories : CategoryLimitOf(budget', c) = CategoryLimitOf(budget, c)]_vars

(***************************************************************************)
(* The monthly spend of the Dashboard and of the alert engine              *)
(***************************************************************************)
\* C26: for every transaction list the monthly spend the Dashboard shows
\* against monthlyLimit is the value the alert engine compares with
\* monthlyLimit, the sum over this calendar month's transactions of the
\* Monthly bucket (checked once the alert effect has called the engine).
C26_SameMonthlySpend ==
  alerts # None =>
    MonthlyBucketSpent(transactions) = MonthlyBucketTotal(transactions, Now)

\* The transactions whose granular category is name.
OfGranular(name) ==
  {k \in DOMAIN transactions : GetGranularCategory(transactions[k]) = name}

\* C25: the breakdown of generateAnalytics partitions the transactions by
\* granular category: no two entries share a name, every transaction's
\* granular category has an entry, each entry counts and sums the
\* transactions of its name, the amounts sum to totalSpent and the counts to
\* the number of transactions, the amounts never increase along the
\* breakdown, and topCategories is its first min(3, length) entries.
C25_BreakdownPartitions ==
  analytics # None =>
    LET b == analytics[1].breakdown
        n == Len(transactions)
    IN /\ \A i, j \in DOMAIN b : i # j => b[i].name # b[j].name
       /\ \A k \in 1..n : \E i \in DOMAIN b : b[i].name = GetGranularCategory(transactions[k])
       /\ \A i \in DOMAIN b :
            /\ b[i].count = Cardinality(OfGranular(b[i].name))
            /\ b[i].count > 0
            /\ b[i].amount = TotalOf(n, OfGranular(b[i].name))
       /\ analytics[1].totalSpent = TotalOf(n, 1..n)
       /\ SumOfValues([i \in DOMAIN b |-> b[i].amount]) = analytics[1].totalSpent
       /\ SumOfValues([i \in DOMAIN b |-> b[i].count]) = n
       /\ \A i \in DOMAIN b : i < Len(b) => b[i].amount >= b[i + 1].amount
       /\ analytics[1].topCategories =
            [i \in 1..(IF Len(b) < 3 THEN Len(b) ELSE 3) |-> b[i]]

\* Four transactions in four granular categories, one of them found by a
\* keyword, and the category map not in descending order of amount.
C25_Witness ==
  /\ analytics # None
  /\ Len(analytics[1].breakdown) = 4
  /\ Len(analytics[1].topCategories) = 3
  /\ \E i \in DOMAIN analytics[1].breakdown :
       analytics[1].breakdown[i].name = "Food Delivery"
  /\ GetGranularCategory(transactions[1]) # analytics[1].breakdown[1].name
  /\ analytics[1].breakdown[1].amount > analytics[1].breakdown[4].amount

====
